---- MODULE Spec2Model ----
(***************************************************************************)
(* A model of the archetype runtime of the ecs library (include/Ecs.hh,    *)
(* src/Ecs.cpp): the slot table with its generational ids, the component   *)
(* columns, the free list, compression, enlargement, maintenance, change   *)
(* tracking and whole-archetype save/load.                                 *)
(*                                                                         *)
(* One archetype is modelled. Which template instance it is (storage       *)
(* discipline, flags) is chosen in Init and never changes: the variable    *)
(* cfg stands for the template arguments. Index values are 0-based as in   *)
(* the code; sequences are 1-based, so slot i is data[i + 1].              *)
(***************************************************************************)
EXTENDS Integers, Sequences, FiniteSets, TLC

(***************************************************************************)
(* Bounds of the exploration.                                              *)
(***************************************************************************)
\* capacity _N of the FixedSizedArray storage of the bounded entity archetype
ArrayN == 3
\* capacity _N of the bounded archetypes that are compressible or tracked
SmallArrayN == 2
\* in an archetype of more than one slot a slot is removed only while its
\* version is below this; the one-slot archetype runs through all versions
MaxVersion == 2
\* largest argument of reserve(), and largest capacity enlarge() and the
\* automatic reserve are explored up to
MaxCapacity == 2
\* largest argument of setAutoCompressNCalls / setAutoReserveNLeft
MaxSetting == 1
\* longest change log explored (operations that would append are held back)
MaxLog == 1
\* performMaintenance calls counted while m_nCalls is still far away
MaxCalls == 1
\* largest number of slots of an archetype that is written to a stream
MaxSaved == 1
\* largest ArchetypeId_t passed to registerArchetype
MaxArchetypeId == 2
\* largest value a caller writes into a component field
MaxPayload == 1
\* longest change log explored for the archetype whose log is followed
MaxTracked == 3
\* most slots, over all archetypes, of a registry that is saved and loaded
MaxStreamedSlots == 2
\* most slots, over all archetypes, of a registry that is iterated
MaxIteratedSlots == 2
\* largest Max of a ComponentIterator<Max, ...>
MaxIteratorMax == 2
\* capacity _N of the compressible archetype whose cells carry distinct values
MoveN == 5

(***************************************************************************)
(* Program constants (Ecs.hh, enum at lines 111-119 and 133-152).          *)
(***************************************************************************)
EntityIndexVersionShift == 24
EntityIndexVersionBitLength == 7
EntityIndexVersionStart == 1
EntityInvalidId == 0
\* (EntityId_t)-1: the "no index requested" argument of create()
EntityInvalidIndex == -1
ArchetypeFlagCompressableNoEntities == 1
ArchetypeFlagAutoCompressNCalls == 2
ArchetypeFlagAutoCompressFreeThreshold == 4
ArchetypeFlagAutoReserveNLeft == 8
ArchetypeFlagAutoReserveFullThreshold == 16
ArchetypeFlagNeverSerialize == 32
ArchetypeFlagWithCreateDeleteTracking == 64
ComponentFlagNoCleanComponent == 1
ComponentFlagCallPreDestroy == 2
ComponentFlagSerializeAsPODType == 4
\* the version Ecs::save writes and the newest Ecs::load accepts
streamVersion == 2
\* defaults of the maintenance policies
DefaultNCalls == 10000
DefaultNLeft == 1
\* uint8_t arithmetic of EntityState_t
ByteRange == 256

VARIABLES
    cfg,            \* the template arguments: [storage, N, flags]
    m_tuple,        \* Archetype::m_tuple: one column per component
    m_state,        \* Archetype::m_state: one EntityState_t per slot
    m_free,         \* Archetype::m_free: indices of the tombstoned slots
    m_changes,      \* ChangeTracker<true>::m_changes
    m_enabled,      \* ChangeTracker<true>::m_enabled
    m_currentCalls, \* AutoCompressNCalls<true>::m_currentCalls
    m_nCalls,       \* AutoCompressNCalls<true>::m_nCalls
    m_nLeft,        \* AutoReserveNLeft<true>::m_nLeft
    stream,         \* the archetype body last written by save, or NoStream
    last,           \* the call made by the last step, with what it returned
    issued,         \* history: ids returned by create and not removed/reset since
    removed,        \* history: one removed id, with what happened to its slot since
    m_archetypes,   \* Ecs::m_archetypes: the entries, in registration order
    m_archetypesById, \* Ecs::m_archetypesById
    m_listener,     \* Ecs::m_listener: TRUE when a listener is installed
    pass,           \* the forEach / forEachWithEntity call in progress, if any
    iterator        \* a ComponentIterator<Max, Cs...>: m_archetypes, with history

archVars == <<m_tuple, m_state, m_free, m_changes, m_enabled, m_currentCalls, m_nCalls, m_nLeft>>
ecsVars == <<m_archetypes, m_archetypesById, m_listener, pass, iterator>>
vars == <<cfg, m_tuple, m_state, m_free, m_changes, m_enabled, m_currentCalls, m_nCalls, m_nLeft,
          stream, last, issued, removed, m_archetypes, m_archetypesById, m_listener, pass,
          iterator>>

(***************************************************************************)
(* detail:: state and id helpers.                                          *)
(***************************************************************************)
VersionRange == 2 ^ EntityIndexVersionBitLength
IndexRange == 2 ^ EntityIndexVersionShift

versionFromState(state) == state % VersionRange

emptyFromState(state) == (state \div VersionRange) # 0

indexFromId(id) == id % IndexRange

\* mutation: bit 31 of the id is taken as part of the version
versionFromIdUnmasked(id) == id \div IndexRange

versionFromId(id) == (id \div IndexRange) % VersionRange

idFromIndexAndVersion(index, version) == index + version * IndexRange

idFromIndexAndState(index, state) == index + versionFromState(state) * IndexRange

stateFromVersionAndEmpty(version, empty) == version + (IF empty THEN VersionRange ELSE 0)

(***************************************************************************)
(* The modelled template instance.  Components: Position as in             *)
(* examples/components/PositionComponent.hh (a POD of numbers, streamed as *)
(* one block), Timer as in examples/components/TimerComponent.hh (keeps    *)
(* its own handle through setEntity, streamed cell by cell) and opting     *)
(* into preDestroy.                                                        *)
(***************************************************************************)
Components == <<"Position", "Timer">>

ComponentNames == {Components[k] : k \in 1..Len(Components)}

ComponentFlags(c) ==
    (IF c = "Timer" THEN {ComponentFlagCallPreDestroy} ELSE {})
    \cup (IF c \in cfg.noClean THEN {ComponentFlagNoCleanComponent} ELSE {})

HasSetEntityMethod(c) == c = "Timer"

\* std::is_pod_v<C> || (Flags & ComponentFlagSerializeAsPODType)
IsPodStreamed(c) == c = "Position" \/ ComponentFlagSerializeAsPODType \in ComponentFlags(c)

canReallocate == cfg.storage = "vec"

AllowCompression == ArchetypeFlagCompressableNoEntities \in cfg.flags

AllowEntities == ArchetypeFlagCompressableNoEntities \notin cfg.flags

AllowSerialization == ArchetypeFlagNeverSerialize \notin cfg.flags

WithCreateDeleteTracking == ArchetypeFlagWithCreateDeleteTracking \in cfg.flags

AutoCompressNCallsEnabled ==
    {ArchetypeFlagCompressableNoEntities, ArchetypeFlagAutoCompressNCalls} \subseteq cfg.flags

AutoCompressFreeThresholdEnabled ==
    {ArchetypeFlagCompressableNoEntities, ArchetypeFlagAutoCompressFreeThreshold} \subseteq cfg.flags

AutoReserveNLeftEnabled == ArchetypeFlagAutoReserveNLeft \in cfg.flags /\ canReallocate

AutoReserveFullThresholdEnabled == ArchetypeFlagAutoReserveFullThreshold \in cfg.flags /\ canReallocate

(***************************************************************************)
(* class Entity: (m_archetype, m_id).  The one modelled archetype is       *)
(* "this"; "other" stands for any other archetype.                         *)
(***************************************************************************)
NullArchetype == "null"

EmptyEntity == [m_archetype |-> NullArchetype, m_id |-> EntityInvalidId]

Entity(id, archetype) == [m_archetype |-> archetype, m_id |-> id]

\* the value-initialised component, which is also what m_defaults holds
componentDefault(c) ==
    IF c = "Timer" THEN [timeLeft |-> 0, self |-> EmptyEntity] ELSE 0

(***************************************************************************)
(* namespace storage: Vector<T> (growable) and Array<T, N> (bounded).      *)
(* A storage is [data, capacity].                                          *)
(***************************************************************************)
Max(x, y) == IF x >= y THEN x ELSE y

size(s) == Len(s.data)

empty(s) == s.data = <<>>

\* mutation: the first element is taken instead of the last
backFirst(s) == s.data[1]

back(s) == s.data[Len(s.data)]

at(s, index) == s.data[index + 1]

NewStorage == [data |-> <<>>, capacity |-> IF canReallocate THEN 0 ELSE cfg.N]

\* std::vector grows when it is full (libstdc++ doubles); Array never grows
GrownCapacity(s) ==
    IF canReallocate /\ Len(s.data) = s.capacity THEN Max(1, 2 * s.capacity) ELSE s.capacity

push_back(s, val) == [data |-> Append(s.data, val), capacity |-> GrownCapacity(s)]

pop_back(s) == [s EXCEPT !.data = SubSeq(@, 1, Len(@) - 1)]

clear(s) == [s EXCEPT !.data = <<>>]

reserve_storage(s, capacity) ==
    IF canReallocate THEN [s EXCEPT !.capacity = Max(@, capacity)] ELSE s

\* resize(newSize) of a cleared storage: newSize value-initialised cells
resize(s, newSize, val) ==
    [data |-> [k \in 1..newSize |-> IF k <= Len(s.data) THEN s.data[k] ELSE val],
     capacity |-> IF canReallocate THEN Max(s.capacity, newSize) ELSE s.capacity]

put(s, index, val) == [s EXCEPT !.data[index + 1] = val]

(***************************************************************************)
(* The archetype as a value, so that one operation can call another.       *)
(***************************************************************************)
Self == [m_tuple |-> m_tuple, m_state |-> m_state, m_free |-> m_free,
         m_changes |-> m_changes, m_enabled |-> m_enabled,
         m_currentCalls |-> m_currentCalls, m_nCalls |-> m_nCalls, m_nLeft |-> m_nLeft]

Install(a) ==
    /\ m_tuple' = a.m_tuple
    /\ m_state' = a.m_state
    /\ m_free' = a.m_free
    /\ m_changes' = a.m_changes
    /\ m_enabled' = a.m_enabled
    /\ m_currentCalls' = a.m_currentCalls
    /\ m_nCalls' = a.m_nCalls
    /\ m_nLeft' = a.m_nLeft

\* Archetype::size() and Archetype::capacity()
archSize(a) == size(a.m_state) - size(a.m_free)

archCapacity(a) == a.m_state.capacity

\* ChangeTracker<...>::registerCreatedEntity / registerDeletedEntity
registerCreatedEntity(a, id) ==
    IF WithCreateDeleteTracking /\ a.m_enabled
    THEN [a EXCEPT !.m_changes = Append(@, [id |-> id, type |-> "Create"])]
    ELSE a

\* mutation: a removal is recorded also while tracking is paused
registerDeletedEntityAlways(a, id) ==
    IF WithCreateDeleteTracking
    THEN [a EXCEPT !.m_changes = Append(@, [id |-> id, type |-> "Delete"])]
    ELSE a

registerDeletedEntity(a, id) ==
    IF WithCreateDeleteTracking /\ a.m_enabled
    THEN [a EXCEPT !.m_changes = Append(@, [id |-> id, type |-> "Delete"])]
    ELSE a

(***************************************************************************)
(* Archetype::validateId and Archetype::extractIndex.                      *)
(***************************************************************************)
\* mutation: the version of the id is not compared
validateIdAnyVersion(a, id) ==
    LET index == indexFromId(id) IN
    IF index >= size(a.m_state) THEN FALSE ELSE ~emptyFromState(at(a.m_state, index))

validateIdIn(a, id) ==
    LET index == indexFromId(id) IN
    IF index >= size(a.m_state) THEN FALSE
    ELSE LET version == versionFromId(id)
             stateVersion == versionFromState(at(a.m_state, index))
             isEmpty == emptyFromState(at(a.m_state, index))
         IN index < size(a.m_state) /\ version = stateVersion /\ ~isEmpty

\* mutation: the version of the id is not compared
extractIndexAnyVersion(a, id) ==
    LET index == indexFromId(id) IN
    IF index >= size(a.m_state) THEN [ok |-> FALSE, index |-> index]
    ELSE [ok |-> ~emptyFromState(at(a.m_state, index)), index |-> index]

\* mutation: a tombstoned slot is not refused
extractIndexIgnoringEmpty(a, id) ==
    LET index == indexFromId(id) IN
    IF index >= size(a.m_state) THEN [ok |-> FALSE, index |-> index]
    ELSE [ok |-> versionFromId(id) = versionFromState(at(a.m_state, index)), index |-> index]

\* [ok, index]: the bool returned and the value left in the out-parameter
extractIndex(a, id) ==
    LET index == indexFromId(id) IN
    IF index >= size(a.m_state) THEN [ok |-> FALSE, index |-> index]
    ELSE IF emptyFromState(at(a.m_state, index)) THEN [ok |-> FALSE, index |-> index]
    ELSE [ok |-> versionFromId(id) = versionFromState(at(a.m_state, index)), index |-> index]

validateId(id) == validateIdIn(Self, id)

\* Entity::fullyValidate
fullyValidateIn(a, e) == e.m_archetype = "this" /\ validateIdIn(a, e.m_id)

(***************************************************************************)
(* What an operation hands back: the archetype after it, the value         *)
(* returned, the exception thrown ("none" when it returns) and the         *)
(* preDestroy hooks it invoked, in order.                                  *)
(***************************************************************************)
Result(a, ret) == [a |-> a, ret |-> ret, exc |-> "none", hooks |-> <<>>]

Thrown(a, exc) == [a |-> a, ret |-> EntityInvalidId, exc |-> exc, hooks |-> <<>>]

\* detail::SetEntity<...>::set: every component that has setEntity is told the handle
SetEntity(tuple, entity) ==
    [c \in ComponentNames |->
        IF HasSetEntityMethod(c)
        THEN put(tuple[c], indexFromId(entity.m_id),
                 [at(tuple[c], indexFromId(entity.m_id)) EXCEPT !.self = entity])
        ELSE tuple[c]]

\* mutation: the version is left out of the id
createdIdFromIndex(a, index) == Result(registerCreatedEntity(a, index), index)

\* the tail of create(): build the id from the state byte, log it, return it
createdId(a, index) ==
    LET id == index + at(a.m_state, index) * IndexRange
    IN Result(registerCreatedEntity(a, id), id)

\* strip the empty bit of a slot that is taken from the free list
reviveSlot(a, index) ==
    [a EXCEPT !.m_state = put(@, index, versionFromState(at(@, index)))]

\* mutation: the search never finds the index
lastPositionNotFound(free, requestedIndex) == -1

\* position of the last occurrence of requestedIndex in free (the loop of
\* PopSpecificFree runs from the back), or -1
lastPositionInFree(free, requestedIndex) ==
    LET hits == {i \in 0..(Len(free.data) - 1) : free.data[i + 1] = requestedIndex}
    IN IF hits = {} THEN -1 ELSE CHOOSE i \in hits : \A j \in hits : j <= i

\* mutation: the archetype never counts as full
stateFullNever(a) == FALSE

\* the test of CreateNew: no room left without reallocating
stateFull(a) == size(a.m_state) = a.m_state.capacity

\* Archetype::create(requestedIndex)
create(a, requestedIndex) ==
    LET action ==
            IF requestedIndex = EntityInvalidIndex
            THEN (IF empty(a.m_free) THEN "CreateNew" ELSE "PopLastFree")
            ELSE (IF requestedIndex = size(a.m_state) THEN "CreateNew" ELSE "PopSpecificFree")
    IN
    CASE action = "CreateNew" ->
            IF stateFull(a)
            THEN Result(a, EntityInvalidId)
            ELSE LET index == size(a.m_state)
                     a1 == [a EXCEPT
                               !.m_tuple = [c \in ComponentNames |-> push_back(@[c], componentDefault(c))],
                               !.m_state = push_back(@, EntityIndexVersionStart)]
                 IN createdId(a1, index)
      [] action = "PopLastFree" ->
            LET index == back(a.m_free)
                a1 == [a EXCEPT !.m_free = pop_back(@)]
            IN createdId(reviveSlot(a1, index), index)
      [] action = "PopSpecificFree" ->
            LET i == lastPositionInFree(a.m_free, requestedIndex) IN
            IF i < 0
            THEN Thrown(a, "InvalidRequestedIndexException")
            ELSE LET a1 == [a EXCEPT !.m_free = pop_back(put(@, i, back(@)))]
                 IN createdId(reviveSlot(a1, requestedIndex), requestedIndex)

\* mutation: the wrapped version 0 is not replaced by 1
bumpedVersionWithZero(state) == versionFromState((state + 1) % ByteRange)

\* mutation: the version is not bumped
bumpedVersionKept(state) == versionFromState(state)

\* the version a slot gets when it is removed: versionFromState(state + 1), never 0
bumpedVersion(state) ==
    LET newVersion == versionFromState((state + 1) % ByteRange)
    IN IF newVersion = 0 THEN 1 ELSE newVersion

\* detail::ComponentCleaner: the cell is rebuilt from the default unless NoCleanComponent
cleanedCell(c, cell) ==
    IF ComponentFlagNoCleanComponent \in ComponentFlags(c) THEN cell ELSE componentDefault(c)

\* detail::PreDestroyCaller over the components, in declaration order
preDestroyCalls(index) ==
    SelectSeq([k \in 1..Len(Components) |-> [component |-> Components[k], index |-> index]],
                 LAMBDA h : ComponentFlagCallPreDestroy \in ComponentFlags(h.component))

\* mutation: the slot is left as it is until the hooks have run
unlinkedLater(a, id, index) == a

\* Archetype::remove(id) from the Delete record to the push onto m_free
unlinked(a, id, index) ==
    LET a1 == registerDeletedEntity(a, id)
        newVersion == bumpedVersion(at(a1.m_state, index))
    IN [a1 EXCEPT
           !.m_state = put(@, index, stateFromVersionAndEmpty(newVersion, TRUE)),
           !.m_free = push_back(@, index)]

\* detail::ComponentCleaner over the components of the slot
cleaned(a, index) ==
    [a EXCEPT !.m_tuple = [c \in ComponentNames |->
                              put(@[c], index, cleanedCell(c, at(@[c], index)))]]

\* Archetype::remove(id)
remove(a, id) ==
    LET ex == extractIndex(a, id) IN
    IF ~ex.ok
    THEN Result(a, EntityInvalidId)
    ELSE LET index == ex.index
             a2 == unlinked(a, id, index)
             a3 == cleaned(a2, index)
         IN [a |-> a3, ret |-> EntityInvalidId, exc |-> "none", hooks |-> preDestroyCalls(index)]

\* mutation: the helper of an archetype that allows entities is compiled in
createEntityAllowed(a) ==
    LET r == create(a, EntityInvalidIndex) IN
    IF r.ret = EntityInvalidId
    THEN Result(r.a, EmptyEntity)
    ELSE LET e == Entity(r.ret, "this")
         IN Result([r.a EXCEPT !.m_tuple = SetEntity(@, e)], e)

\* ArchetypeHelper<AllowEntities,...>::create, behind Archetype::createEntity
createEntity(a) ==
    IF ~AllowEntities
    THEN Result(a, EmptyEntity)
    ELSE LET r == create(a, EntityInvalidIndex) IN
         IF r.ret = EntityInvalidId
         THEN Result(r.a, EmptyEntity)
         ELSE LET e == Entity(r.ret, "this")
              IN Result([r.a EXCEPT !.m_tuple = SetEntity(@, e)], e)

\* mutation: nothing is copied
CopyNoComponents(tuple, target, source) == tuple

\* detail::CopyComponents<...>::copy
CopyComponents(tuple, target, source) ==
    [c \in ComponentNames |-> put(tuple[c], target, at(tuple[c], source))]

\* ArchetypeHelper<AllowEntities,...>::duplicate, behind Archetype::duplicateEntity
duplicateEntity(a, other) ==
    IF ~AllowEntities
    THEN Result(a, EmptyEntity)
    ELSE IF other.m_archetype = NullArchetype \/ other.m_archetype # "this"
    THEN Result(a, EmptyEntity)
    ELSE LET ex == extractIndex(a, other.m_id) IN
         IF ~ex.ok
         THEN Result(a, EmptyEntity)
         ELSE LET r == create(a, EntityInvalidIndex) IN
              IF r.ret = EntityInvalidId
              THEN Result(r.a, EmptyEntity)
              ELSE LET e == Entity(r.ret, "this")
                       copied == CopyComponents(r.a.m_tuple, indexFromId(r.ret), ex.index)
                   IN Result([r.a EXCEPT !.m_tuple = SetEntity(copied, e)], e)

(***************************************************************************)
(* Compression, enlargement, maintenance, reset.                           *)
(***************************************************************************)
\* std::sort of the free indices
RECURSIVE sortSeq(_)
sortSeq(q) ==
    IF q = <<>> THEN <<>>
    ELSE LET k == CHOOSE i \in 1..Len(q) : \A j \in 1..Len(q) : q[i] <= q[j]
         IN <<q[k]>> \o sortSeq([i \in 1..(Len(q) - 1) |-> IF i < k THEN q[i] ELSE q[i + 1]])

\* mutation: the columns keep their last cell
popStateOnly(a) == [a EXCEPT !.m_state = pop_back(@)]

\* m_state.pop_back() and pop_back() of every column
popAll(a) ==
    [a EXCEPT !.m_state = pop_back(@),
              !.m_tuple = [c \in ComponentNames |-> pop_back(@[c])]]

\* the inner for(;;) of compress: drop the free indices that sit at the end.
\* fr is the window [freeBegin, freeEnd) of the sorted free indices.
RECURSIVE dropTrailingFree(_, _)
dropTrailingFree(a, fr) ==
    IF fr[Len(fr)] # size(a.m_state) - 1
    THEN [a |-> a, fr |-> fr]
    ELSE LET fr1 == SubSeq(fr, 1, Len(fr) - 1)
             a1 == popAll(a)
         IN IF fr1 = <<>> THEN [a |-> a1, fr |-> fr1] ELSE dropTrailingFree(a1, fr1)

\* mutation: nothing is moved and nothing is dropped
compressLoopSkipped(a, fr) == a

\* mutation: the hole that is filled is the highest one
highestFree(fr) == fr[Len(fr)]

\* *freeBegin: the lowest free index of the window
lowestFree(fr) == fr[1]

\* the do ... while of compress
RECURSIVE compressLoop(_, _)
compressLoop(a, fr) ==
    LET d == dropTrailingFree(a, fr) IN
    IF d.fr = <<>>
    THEN d.a
    ELSE LET target == lowestFree(d.fr)
             moved == [c \in ComponentNames |-> put(d.a.m_tuple[c], target, back(d.a.m_tuple[c]))]
             seated == SetEntity(moved, Entity(target, "this"))
             a1 == [d.a EXCEPT !.m_tuple = seated, !.m_state = put(@, target, 0)]
             a2 == popAll(a1)
             fr2 == Tail(d.fr)
         IN IF fr2 = <<>> THEN a2 ELSE compressLoop(a2, fr2)

\* mutation: the free list is not cleared
clearAllKeepFree(a) ==
    [a EXCEPT !.m_state = clear(@),
              !.m_tuple = [c \in ComponentNames |-> clear(@[c])]]

\* m_free.clear(); m_state.clear(); every column.clear()
clearAll(a) ==
    [a EXCEPT !.m_free = clear(@), !.m_state = clear(@),
              !.m_tuple = [c \in ComponentNames |-> clear(@[c])]]

\* ArchetypeHelper<AllowCompression,...>::compress, behind Archetype::compress
compress(a) ==
    IF ~AllowCompression
    THEN (IF archSize(a) = 0 THEN clearAll(a) ELSE a)
    ELSE IF empty(a.m_free) THEN a
    ELSE IF archSize(a) = 0 THEN clearAll(a)
    ELSE LET a1 == [a EXCEPT !.m_free.data = sortSeq(@)]
             a2 == compressLoop(a1, a1.m_free.data)
         IN [a2 EXCEPT !.m_free = clear(@)]

\* mutation: the columns are not reserved
reserveStateOnly(a, capacity) ==
    [a EXCEPT !.m_state = reserve_storage(@, capacity),
              !.m_free = reserve_storage(@, capacity)]

\* Archetype::reserve(capacity)
reserve(a, capacity) ==
    [a EXCEPT !.m_tuple = [c \in ComponentNames |-> reserve_storage(@[c], capacity)],
              !.m_state = reserve_storage(@, capacity),
              !.m_free = reserve_storage(@, capacity)]

\* Archetype::enlarge()
enlarge(a) == reserve(a, archCapacity(a) * 2)

\* AutoCompressNCalls<true>::compressNCalls: [fire, m_currentCalls afterwards]
compressNCalls(a) ==
    IF ~AutoCompressNCallsEnabled THEN [fire |-> FALSE, calls |-> a.m_currentCalls]
    ELSE IF a.m_currentCalls < a.m_nCalls
    THEN [fire |-> FALSE, calls |-> a.m_currentCalls + 1]
    ELSE [fire |-> TRUE, calls |-> 0]

\* the float ratio x / y compared with the threshold num / den; 0 / 0 is NaN
ratioAtLeast(x, y, num, den) ==
    IF y = 0 THEN x > 0 ELSE x * den >= num * y

\* AutoCompressFreeThreshold<true>::compressFreeThreshold, m_threshold = 0.25f
compressFreeThreshold(a) ==
    AutoCompressFreeThresholdEnabled /\ ratioAtLeast(size(a.m_free), a.m_state.capacity, 1, 4)

\* AutoReserveNLeft<true>::reserveNLeft(capacity() - size())
reserveNLeft(a) ==
    AutoReserveNLeftEnabled /\ archCapacity(a) - archSize(a) <= a.m_nLeft

\* AutoReserveFullThreshold<true>::reserveFullThreshold, m_threshold = 0.75f
reserveFullThreshold(a) ==
    AutoReserveFullThresholdEnabled /\ ratioAtLeast(size(a.m_state), a.m_state.capacity, 3, 4)

\* Archetype::performMaintenance()
performMaintenance(a) ==
    LET n == compressNCalls(a)
        a1 == [a EXCEPT !.m_currentCalls = n.calls]
        a2 == IF n.fire \/ compressFreeThreshold(a1) THEN compress(a1) ELSE a1
    IN IF reserveNLeft(a2) \/ reserveFullThreshold(a2) THEN enlarge(a2) ELSE a2

\* mutation: nothing is cleared
resetNothing(a) == a

\* Archetype::reset()
reset(a) == [clearAll(a) EXCEPT !.m_changes = IF WithCreateDeleteTracking THEN <<>> ELSE @]

(***************************************************************************)
(* Save and load of the archetype.  The stream is kept as the body that    *)
(* ArchetypeHelper::save writes: the state bytes, the free indices and one *)
(* record per non-empty column.                                            *)
(***************************************************************************)
NoStream == [written |-> FALSE]

\* the j-th (0-based) live index of the state bytes
RECURSIVE liveSeq(_, _)
liveSeq(stateData, from) ==
    IF from >= Len(stateData) THEN <<>>
    ELSE (IF emptyFromState(stateData[from + 1]) THEN <<>> ELSE <<from>>)
         \o liveSeq(stateData, from + 1)

\* StreamHelper<...>::save of one column: a POD column is written whole, a
\* structured one cell by cell for the live slots (Timer::save writes timeLeft)
savedPayload(c, column, stateData) ==
    IF IsPodStreamed(c) THEN column.data
    ELSE LET lv == liveSeq(stateData, 0)
         IN [j \in 1..Len(lv) |-> column.data[lv[j] + 1].timeLeft]

\* ArchetypeHelper<AllowSerialization,...>::save
save(a) ==
    IF ~AllowSerialization
    THEN [written |-> TRUE, state |-> <<>>, free |-> <<>>, columns |-> <<>>]
    ELSE [written |-> TRUE,
          state |-> a.m_state.data,
          free |-> a.m_free.data,
          columns |-> SelectSeq(
              [k \in 1..Len(Components) |->
                  [name |-> Components[k],
                   count |-> size(a.m_tuple[Components[k]]),
                   payload |-> savedPayload(Components[k], a.m_tuple[Components[k]], a.m_state.data)]],
              LAMBDA col : col.count # 0)]

\* detail::readStorage: clear, resize to the stored count, read into place
readStorage(s, stored) ==
    [data |-> stored,
     capacity |-> IF canReallocate THEN Max(s.capacity, Len(stored)) ELSE s.capacity]

\* mutation: the record is not read into the column
loadedColumnSkipped(c, column, stateData, payload) == column

\* StreamHelper<...>::load of one column record into column c
loadedColumn(c, column, stateData, payload) ==
    IF IsPodStreamed(c)
    THEN [column EXCEPT !.data = payload]
    ELSE LET lv == liveSeq(stateData, 0)
             rank(i) == CHOOSE j \in 1..Len(lv) : lv[j] = i
         IN [column EXCEPT !.data =
                [k \in 1..Len(@) |->
                    IF emptyFromState(stateData[k]) THEN @[k]
                    ELSE [@[k] EXCEPT !.timeLeft = payload[rank(k - 1)]]]]

\* mutation: no slot is told its handle
seatNone(tuple, stateData, index) == tuple

\* the setEntity pass of load: every live slot is told its handle
RECURSIVE seatLive(_, _, _)
seatLive(tuple, stateData, index) ==
    IF index >= Len(stateData) THEN tuple
    ELSE seatLive(
            IF emptyFromState(stateData[index + 1]) THEN tuple
            ELSE SetEntity(tuple, Entity(idFromIndexAndState(index, stateData[index + 1]), "this")),
            stateData, index + 1)

RECURSIVE loadColumns(_, _, _)
loadColumns(tuple, stateData, columns) ==
    IF columns = <<>> THEN tuple
    ELSE LET col == Head(columns)
         IN loadColumns(
                [c \in ComponentNames |->
                    IF c = col.name THEN loadedColumn(c, tuple[c], stateData, col.payload)
                    ELSE tuple[c]],
                stateData, Tail(columns))

\* ArchetypeHelper<AllowSerialization,...>::load
load(a, body) ==
    IF ~AllowSerialization THEN a
    ELSE LET st == readStorage(a.m_state, body.state)
             fr == readStorage(a.m_free, body.free)
             resized == [c \in ComponentNames |->
                            resize(clear(a.m_tuple[c]), Len(st.data), componentDefault(c))]
             seated == seatLive(resized, st.data, 0)
         IN [a EXCEPT !.m_state = st, !.m_free = fr,
                      !.m_tuple = loadColumns(seated, st.data, body.columns)]

\* Ecs::load for a registry that holds this archetype: every archetype is
\* reset, the record is loaded, then performMaintenance runs
ecsLoad(a, body) == performMaintenance(load(reset(a), body))

(***************************************************************************)
(* class Ecs: the registry.  The registered template instances are those   *)
(* of tests/EcsTests.cpp: "vs" (Position), "fas" (Position, Timer) and     *)
(* "test" (Position, Timer, Draw).  A component mask is kept as the set of *)
(* the components whose bit is set, so that (mask & m) == m is m \subseteq *)
(* mask; a pointer to a registered archetype is the name of its type (the  *)
(* registry holds at most one object per type) and NullArchetype is        *)
(* nullptr.  An entry keeps the slot table of its archetype as a value of  *)
(* the shape of Self; only its state bytes and free list matter here.      *)
(***************************************************************************)
ArchetypeTypes == {"vs", "fas", "test"}

ArchetypeIds == 1..MaxArchetypeId

\* _Archetype::staticMask(): the bits of the components of the type
staticMask(type) ==
    CASE type = "vs" -> {"Position"}
      [] type = "fas" -> {"Position", "Timer"}
      [] type = "test" -> {"Position", "Timer", "Draw"}

\* what the constructor of Archetype leaves behind
NewArchetype ==
    [m_tuple |-> [c \in ComponentNames |-> NewStorage], m_state |-> NewStorage,
     m_free |-> NewStorage, m_changes |-> <<>>, m_enabled |-> TRUE,
     m_currentCalls |-> 0, m_nCalls |-> DefaultNCalls, m_nLeft |-> DefaultNLeft]

Entry(mask, type, id) == [mask |-> mask, archetype |-> type, id |-> id, a |-> NewArchetype]

\* the registry as a value
Registry == [m_archetypes |-> m_archetypes, m_archetypesById |-> m_archetypesById]

\* Ecs::find(mask) and, with the same body, Ecs::findArchetype(mask)
RECURSIVE find(_, _)
find(archetypes, mask) ==
    IF archetypes = <<>> THEN NullArchetype
    ELSE IF Head(archetypes).mask = mask THEN Head(archetypes).archetype
    ELSE find(Tail(archetypes), mask)

findArchetype(e, mask) == find(e.m_archetypes, mask)

findArchetypeById(e, id) == e.m_archetypesById[id]

\* Ecs::insert(mask, archetype): [e, exc]
insert(e, mask, type, id) ==
    IF e.m_archetypesById[id] # NullArchetype
    THEN [e |-> e, exc |-> "DoubleId"]
    ELSE [e |-> [m_archetypes |-> Append(e.m_archetypes, Entry(mask, type, id)),
                 m_archetypesById |-> [e.m_archetypesById EXCEPT ![id] = type]],
          exc |-> "none"]

\* mutation: the mask is not looked up before the archetype is inserted
registerArchetypeAnyMask(e, listener, type, id) ==
    LET ins == insert(e, staticMask(type), type, id) IN
    IF ins.exc # "none"
    THEN [e |-> e, ret |-> NullArchetype, exc |-> ins.exc, hooks |-> <<>>]
    ELSE [e |-> ins.e, ret |-> type, exc |-> "none",
          hooks |-> IF listener THEN <<[event |-> "registeredArchetype", archetype |-> type]>>
                    ELSE <<>>]

\* Ecs::registerArchetype<_Archetype>(name, id): [e, ret, exc, hooks]
registerArchetype(e, listener, type, id) ==
    LET mask == staticMask(type) IN
    IF find(e.m_archetypes, mask) # NullArchetype
    THEN [e |-> e, ret |-> NullArchetype, exc |-> "DuplicateArchetypeException", hooks |-> <<>>]
    ELSE LET ins == insert(e, mask, type, id) IN
         IF ins.exc # "none"
         THEN [e |-> e, ret |-> NullArchetype, exc |-> ins.exc, hooks |-> <<>>]
         ELSE [e |-> ins.e, ret |-> type, exc |-> "none",
               hooks |-> IF listener THEN <<[event |-> "registeredArchetype", archetype |-> type]>>
                         ELSE <<>>]

\* mutation: the id table keeps its pointers
ecsResetKeepIds(e) == [e EXCEPT !.m_archetypes = <<>>]

\* Ecs::reset()
ecsReset(e) ==
    [m_archetypes |-> <<>>, m_archetypesById |-> [id \in ArchetypeIds |-> NullArchetype]]

\* the slots of all archetypes together
RECURSIVE slotCount(_)
slotCount(archetypes) ==
    IF archetypes = <<>> THEN 0
    ELSE size(Head(archetypes).a.m_state) + slotCount(Tail(archetypes))

\* Ecs::countEntities(): the sum of size() over the archetypes
RECURSIVE countEntities(_)
countEntities(archetypes) ==
    IF archetypes = <<>> THEN 0
    ELSE archSize(Head(archetypes).a) + countEntities(Tail(archetypes))

(***************************************************************************)
(* Ecs::forEach and Ecs::forEachWithEntity.  A call in progress is kept in *)
(* pass: the query mask, the position of the outer loop (entry, 1-based in *)
(* m_archetypes), whether the inner loop of that entry is running, its     *)
(* index and the end observed when it started, the cells handed to the     *)
(* callback so far, the number of entities the callbacks removed, the      *)
(* number of entities there were when the call began and the entities the  *)
(* callbacks created.                                                      *)
(***************************************************************************)
NoPass == [active |-> FALSE]

StartedPass(componentMask, withEntity, count) ==
    [active |-> TRUE, withEntity |-> withEntity, componentMask |-> componentMask,
     entry |-> 1, inside |-> FALSE, index |-> 0, end |-> 0,
     yielded |-> <<>>, removals |-> 0, startCount |-> count, created |-> <<>>]

\* mutation: the end of the storage, not of the slots in use
stateEndOfStorage(a) == a.m_state.capacity

\* IArchetype::stateEnd(), as an offset from stateBegin()
stateEnd(a) == size(a.m_state)

\* mutation: every archetype is iterated
matchesAlways(entry, componentMask) == TRUE

\* (entry.mask & componentMask) == componentMask
matches(entry, componentMask) == componentMask \subseteq entry.mask

\* mutation: the tombstone bit is not looked at
yieldsAlways(state) == TRUE

\* the test before the callback: !detail::emptyFromState(*state)
yields(state) == ~emptyFromState(state)

\* what the callback is handed for the cell: the archetype, the index and,
\* by forEachWithEntity, the handle built from the index and the state byte
Yielded(entry, index, withEntity) ==
    [archetype |-> entry.archetype, index |-> index,
     entity |-> IF withEntity
                THEN Entity(idFromIndexAndState(index, at(entry.a.m_state, index)), entry.archetype)
                ELSE EmptyEntity]

(***************************************************************************)
(* ComponentIterator<Max, Cs...> (Advanced.hh).  A stored pointer is the   *)
(* instance it points to, or NullArchetype.  History: dangling, the places *)
(* of the array whose archetype Ecs::reset has destroyed since it was      *)
(* stored; initialized, a call of initialize has returned; changed, an     *)
(* archetype was registered or reset away since.                           *)
(***************************************************************************)
\* ComponentIterator(): every pointer is nullptr
NewIterator(max, componentMask) ==
    [Max |-> max, componentMask |-> componentMask,
     m_archetypes |-> [n \in 1..max |-> NullArchetype],
     dangling |-> {}, initialized |-> FALSE, changed |-> FALSE]

\* the forEachArchetype of ComponentIterator::initialize from entry k on, count
\* pointers stored: [m_archetypes, count, exc]
RECURSIVE initializeFrom(_, _, _, _)
initializeFrom(it, archetypes, k, count) ==
    IF k > Len(archetypes) THEN [m_archetypes |-> it.m_archetypes, count |-> count, exc |-> "none"]
    ELSE IF it.componentMask \subseteq staticMask(archetypes[k].archetype)
    THEN (IF ~(count < it.Max)
          THEN [m_archetypes |-> it.m_archetypes, count |-> count, exc |-> "assert"]
          ELSE initializeFrom([it EXCEPT !.m_archetypes[count + 1] = archetypes[k].archetype],
                              archetypes, k + 1, count + 1))
    ELSE initializeFrom(it, archetypes, k + 1, count)

\* ComponentIterator::initialize(ecs): [it, exc]; the pointers behind the
\* last one stored stay what they were
initialize(it, e) ==
    LET r == initializeFrom(it, e.m_archetypes, 1, 0) IN
    [it |-> [it EXCEPT !.m_archetypes = r.m_archetypes,
                       !.dangling = @ \ (1..r.count),
                       !.initialized = r.exc = "none",
                       !.changed = FALSE],
     exc |-> r.exc]

\* the do ... while of iterate / iterateEntity over the state bytes of one
\* archetype, entered when state != end
RECURSIVE iterateCells(_, _, _, _)
iterateCells(entry, index, end, withEntity) ==
    (IF yields(at(entry.a.m_state, index)) THEN <<Yielded(entry, index, withEntity)>> ELSE <<>>)
    \o (IF index + 1 # end THEN iterateCells(entry, index + 1, end, withEntity) ELSE <<>>)

\* ComponentIterator::iterate / iterateEntity with a callback that changes
\* nothing, from place n of the array on: the calls of the callback.  Behind
\* a pointer to a destroyed archetype is the storage its destructor emptied.
RECURSIVE iterate(_, _, _, _)
iterate(it, archetypes, n, withEntity) ==
    IF n > it.Max \/ it.m_archetypes[n] = NullArchetype THEN <<>>
    ELSE IF n \in it.dangling THEN iterate(it, archetypes, n + 1, withEntity)
    ELSE LET entry == archetypes[CHOOSE k \in 1..Len(archetypes) :
                                    archetypes[k].archetype = it.m_archetypes[n]]
             end == size(entry.a.m_state)
         IN (IF 0 # end THEN iterateCells(entry, 0, end, withEntity) ELSE <<>>)
            \o iterate(it, archetypes, n + 1, withEntity)

\* the places the loop of iterate reaches: up to the first nullptr
reached(it) ==
    {n \in 1..it.Max : \A j \in 1..n : it.m_archetypes[j] # NullArchetype}

(***************************************************************************)
(* Ecs::save and Ecs::load over the registry, byte for byte.  The stream   *)
(* is the sequence of the runs of bytes that were written, each with its   *)
(* length w, its content v and what it is (kind); a position is the index  *)
(* of a run, and skip(n) moves over runs of n bytes together.  A read that *)
(* does not find the run it expects has lost the structure of the stream   *)
(* ("Desync").  An entry of type vs has no Timer column: the model keeps   *)
(* one of default cells, which is neither written nor read.                *)
(***************************************************************************)
Bytes(kind, w, v) == [kind |-> kind, w |-> w, v |-> v]

RECURSIVE byteLen(_)
byteLen(tokens) == IF tokens = <<>> THEN 0 ELSE Head(tokens).w + byteLen(Tail(tokens))

\* the components of a registered template instance, in declaration order
componentsOf(type) == SelectSeq(Components, LAMBDA c : c \in staticMask(type))

\* strlen(ComponentType::staticName())
staticNameLen(c) == IF c = "Position" THEN 8 ELSE 5

\* sizeof(ComponentType) of a component streamed as a block (three floats),
\* and the bytes one cell of a structured one writes (Timer: one float)
cellBytes(c) == IF IsPodStreamed(c) THEN 12 ELSE 4

\* detail::writeStorage: the count and the elements
writeStorage(kind, s, elementSize) ==
    <<Bytes("u32", 4, size(s))>>
    \o (IF size(s) = 0 THEN <<>> ELSE <<Bytes(kind, elementSize * size(s), s.data)>>)

\* what StreamHelper<...>::save writes for one column
payloadTokens(c, column, stateData) ==
    LET p == savedPayload(c, column, stateData) IN
    IF IsPodStreamed(c)
    THEN <<Bytes("block", cellBytes(c) * Len(p), p)>>
    ELSE [j \in 1..Len(p) |-> Bytes("cell", cellBytes(c), p[j])]

\* mutation: the size field itself is not counted
totalSizeOfPayload(sizePosition, finalPosition) == finalPosition - sizePosition - 4

\* the size written back into the column header: finalPosition - sizePosition
totalSize(sizePosition, finalPosition) == finalPosition - sizePosition

\* streamComponent of ArchetypeHelper::save: nothing for an empty column,
\* else name, component version, size and payload.  Format "v1" is the
\* record that load reads from a stream of version 1: no size field.
\* Format "long" is the record of a component that wrote four bytes more
\* than this build's loader reads, format "short" one whose size field
\* counts four bytes less than the loader reads.
columnRecord(c, column, stateData, format) ==
    IF size(column) = 0 THEN <<>>
    ELSE LET header == <<Bytes("u8", 1, staticNameLen(c)), Bytes("name", staticNameLen(c), c),
                         Bytes("u8", 1, 1)>>
             payload == payloadTokens(c, column, stateData)
                        \o (IF format = "long" THEN <<Bytes("pad", 4, 0)>> ELSE <<>>)
             sizePosition == byteLen(header)
             finalPosition == sizePosition + 4 + byteLen(payload)
             short == IF format = "short" /\ byteLen(payload) > 0 THEN 4 ELSE 0
         IN header
            \o (IF format = "v1" THEN <<>>
                ELSE <<Bytes("u32", 4, totalSize(sizePosition, finalPosition) - short)>>)
            \o payload

\* the column records of an archetype body; format "dup" is a body in which
\* every column record occurs twice
RECURSIVE columnRecords(_, _, _, _)
columnRecords(a, comps, k, format) ==
    IF k > Len(comps) THEN <<>>
    ELSE LET record == columnRecord(comps[k], a.m_tuple[comps[k]], a.m_state.data, format)
         IN record \o (IF format = "dup" THEN record ELSE <<>>)
            \o columnRecords(a, comps, k + 1, format)

\* ArchetypeHelper<AllowSerialization,...>::save: the archetype body
archetypeSave(a, comps, format) ==
    IF ~AllowSerialization THEN <<>>
    ELSE writeStorage("state", a.m_state, 1) \o writeStorage("free", a.m_free, 4)
         \o columnRecords(a, comps, 1, format) \o <<Bytes("u8", 1, 0)>>

\* mutation: the size field is counted into the archetype size
archetypeSizeWithField(archetypeSizeOffset, position) == position - archetypeSizeOffset

\* the archetypeSize written back by Ecs::save
archetypeSize(archetypeSizeOffset, position) == position - archetypeSizeOffset - 4

\* the loop of Ecs::save over m_archetypes, appending to what was written
RECURSIVE saveArchetypes(_, _, _, _)
saveArchetypes(archetypes, k, format, out) ==
    IF k > Len(archetypes) THEN out
    ELSE LET withId == Append(out, Bytes("u8", 1, archetypes[k].id))
             archetypeSizeOffset == byteLen(withId)
             body == archetypeSave(archetypes[k].a, componentsOf(archetypes[k].archetype), format)
             position == archetypeSizeOffset + 4 + byteLen(body)
         IN saveArchetypes(archetypes, k + 1, format,
                withId \o <<Bytes("u32", 4, archetypeSize(archetypeSizeOffset, position))>> \o body)

\* Ecs::save, writing streamVersion v
ecsSave(e, format, v) ==
    saveArchetypes(e.m_archetypes, 1, format,
                   <<Bytes("u32", 4, v), Bytes("u32", 4, Len(e.m_archetypes))>>)

\* the runs from position k on are of these kinds
expects(tokens, k, kinds) ==
    /\ k >= 1
    /\ k + Len(kinds) - 1 <= Len(tokens)
    /\ \A i \in 1..Len(kinds) : tokens[k + i - 1].kind = kinds[i]

\* IStream::skip(n) from position k: the position n bytes on, or 0 when it
\* is not the start of a run
RECURSIVE skip(_, _, _)
skip(tokens, k, n) ==
    IF n = 0 THEN k
    ELSE IF n < 0 \/ k > Len(tokens) \/ tokens[k].w > n THEN 0
    ELSE skip(tokens, k + 1, n - tokens[k].w)

\* IEcsListener::SerializationEvent: the type, the id of the archetype and
\* the name of the component (0 and "" where the code leaves them out)
Event(type, archetypeId, name) == [type |-> type, archetypeId |-> archetypeId, name |-> name]

\* mutation: no event is sent for a column
loadComponentEventNone(c) == <<>>

\* the LoadComponent event of a column that is about to be loaded; the id of
\* the archetype is filled in by the caller
loadComponentEvent(c) == <<Event("LoadComponent", 0, c)>>

\* what a load returns: the archetype, the position reached, the exception
\* and the events a listener is sent
Loaded(a, k, exc) == [a |-> a, k |-> k, exc |-> exc, events |-> <<>>]

\* the events with more events sent before them
precededBy(events, r) == [r EXCEPT !.events = events \o @]

\* detail::readStorage from position k: [s, k], k = 0 when the runs are not
\* a count and its elements
readStorageAt(tokens, k, kind, s) ==
    IF ~expects(tokens, k, <<"u32">>) THEN [s |-> s, k |-> 0]
    ELSE IF tokens[k].v = 0 THEN [s |-> readStorage(s, <<>>), k |-> k + 1]
    ELSE IF ~expects(tokens, k + 1, <<kind>>) \/ Len(tokens[k + 1].v) # tokens[k].v
    THEN [s |-> s, k |-> 0]
    ELSE [s |-> readStorage(s, tokens[k + 1].v), k |-> k + 2]

\* mutation: the bytes the component loader left are not skipped
unreadIgnored(dataSize, bytesRead) == 0

\* the bytes of the column the component loader did not read
unread(dataSize, bytesRead) == dataSize - bytesRead

\* the do ... while of ArchetypeHelper::load over the column records
RECURSIVE loadRecords(_, _, _, _, _)
loadRecords(a, comps, tokens, k, version) ==
    IF ~expects(tokens, k, <<"u8">>) THEN Loaded(a, k, "Desync")
    ELSE IF tokens[k].v = 0 THEN Loaded(a, k + 1, "none")
    ELSE IF ~expects(tokens, k + 1, <<"name", "u8">>) THEN Loaded(a, k, "Desync")
    ELSE LET dataCompName == tokens[k + 1].v
             dataCompVersion == tokens[k + 2].v
             canSkip == version >= 2
             sized == expects(tokens, k + 3, <<"u32">>)
             dataSize == IF canSkip /\ sized THEN tokens[k + 3].v - 4 ELSE 0
             startPos == IF canSkip THEN k + 4 ELSE k + 3
             loaded == \E j \in 1..Len(comps) : comps[j] = dataCompName
         IN
         IF canSkip /\ ~sized THEN Loaded(a, k, "Desync")
         ELSE IF ~loaded
         THEN (IF ~canSkip THEN Loaded(a, startPos, "CannotSkipComponentException")
               ELSE LET next == skip(tokens, startPos, dataSize) IN
                    IF next = 0 THEN Loaded(a, startPos, "Desync")
                    ELSE loadRecords(a, comps, tokens, next, version))
         ELSE precededBy(loadComponentEvent(dataCompName),
              IF IsPodStreamed(dataCompName) /\ dataCompVersion # 1
         THEN Loaded(a, startPos, "InvalidPodDataVersionException")
         ELSE LET runs == IF IsPodStreamed(dataCompName) THEN 1
                          ELSE Len(liveSeq(a.m_state.data, 0))
                  kinds == [j \in 1..runs |->
                               IF IsPodStreamed(dataCompName) THEN "block" ELSE "cell"]
                  aligned == /\ expects(tokens, startPos, kinds)
                             /\ IsPodStreamed(dataCompName) =>
                                   Len(tokens[startPos].v) = size(a.m_state)
              IN
              IF ~aligned THEN Loaded(a, startPos, "Desync")
              ELSE LET payload == IF IsPodStreamed(dataCompName) THEN tokens[startPos].v
                                  ELSE [j \in 1..runs |-> tokens[startPos + j - 1].v]
                       a1 == [a EXCEPT !.m_tuple[dataCompName] =
                                 loadedColumn(dataCompName, @, a.m_state.data, payload)]
                       curPos == startPos + runs
                       bytesRead == byteLen(SubSeq(tokens, startPos, curPos - 1))
                   IN
                   IF ~canSkip THEN loadRecords(a1, comps, tokens, curPos, version)
                   ELSE IF bytesRead > dataSize
                   THEN Loaded(a1, curPos, "InvalidDataStreamException")
                   ELSE LET next == skip(tokens, curPos, unread(dataSize, bytesRead)) IN
                        IF next = 0 THEN Loaded(a1, curPos, "Desync")
                        ELSE loadRecords(a1, comps, tokens, next, version))

\* ArchetypeHelper<AllowSerialization,...>::load of the body at position k
archetypeLoad(a, comps, tokens, k, version) ==
    IF ~AllowSerialization THEN Loaded(a, k, "none")
    ELSE LET st == readStorageAt(tokens, k, "state", a.m_state)
             fr == readStorageAt(tokens, st.k, "free", a.m_free)
         IN
         IF st.k = 0 \/ fr.k = 0 THEN Loaded(a, k, "Desync")
         ELSE LET resized == [c \in ComponentNames |->
                                 resize(clear(a.m_tuple[c]), size(st.s), componentDefault(c))]
                  seated == seatLive(resized, st.s.data, 0)
              IN loadRecords([a EXCEPT !.m_state = st.s, !.m_free = fr.s, !.m_tuple = seated],
                             comps, tokens, fr.k, version)

\* the index of the entry whose archetype is the given one
entryIndex(archetypes, type) == CHOOSE k \in 1..Len(archetypes) : archetypes[k].archetype = type

\* the events of an archetype, as sent by the archetype of the given id
sentBy(id, events) == [j \in 1..Len(events) |-> [events[j] EXCEPT !.archetypeId = id]]

\* the loop of Ecs::load over the archetype records: [e, k, exc, events]
RECURSIVE loadArchetypes(_, _, _, _, _)
loadArchetypes(e, tokens, k, left, v) ==
    IF left = 0 THEN [e |-> e, k |-> k, exc |-> "none", events |-> <<>>]
    ELSE IF ~expects(tokens, k, <<"u8", "u32">>)
    THEN [e |-> e, k |-> k, exc |-> "Desync", events |-> <<>>]
    ELSE LET id == tokens[k].v
             size32 == tokens[k + 1].v
             archetype == IF id \in ArchetypeIds THEN findArchetypeById(e, id) ELSE NullArchetype
         IN
         IF archetype = NullArchetype
         THEN LET next == skip(tokens, k + 2, size32) IN
              IF next = 0 THEN [e |-> e, k |-> k, exc |-> "Desync", events |-> <<>>]
              ELSE loadArchetypes(e, tokens, next, left - 1, v)
         ELSE LET n == entryIndex(e.m_archetypes, archetype)
                  r == archetypeLoad(e.m_archetypes[n].a, componentsOf(archetype), tokens, k + 2, v)
                  e1 == [e EXCEPT !.m_archetypes =
                            [j \in 1..Len(@) |-> IF j = n THEN [@[j] EXCEPT !.a = r.a] ELSE @[j]]]
                  started == <<Event("ArchetypeStart", id, "")>> \o sentBy(id, r.events)
              IN IF r.exc # "none" THEN [e |-> e1, k |-> r.k, exc |-> r.exc, events |-> started]
                 ELSE precededBy(started \o <<Event("ArchetypeFinished", id, "")>>,
                            loadArchetypes(e1, tokens, r.k, left - 1, v))

\* every archetype of the registry, with f applied
onEveryArchetype(e, f(_)) ==
    [e EXCEPT !.m_archetypes = [n \in 1..Len(@) |-> [@[n] EXCEPT !.a = f(@)]]]

\* mutation: the archetypes are reset before the version is looked at
ecsLoadResetFirst(e, tokens) ==
    IF ~expects(tokens, 1, <<"u32", "u32">>) THEN [e |-> e, exc |-> "Desync", events |-> <<>>]
    ELSE IF tokens[1].v > streamVersion
    THEN [e |-> onEveryArchetype(e, reset), exc |-> "BadStreamVersion", events |-> <<>>]
    ELSE LET r == loadArchetypes(onEveryArchetype(e, reset), tokens, 3, tokens[2].v, tokens[1].v)
             started == <<Event("LoadStart", 0, "")>> \o r.events
         IN IF r.exc # "none" THEN [e |-> r.e, exc |-> r.exc, events |-> started]
            ELSE [e |-> onEveryArchetype(r.e, performMaintenance), exc |-> "none",
                  events |-> started \o <<Event("LoadFinished", 0, "")>>]

\* Ecs::load: [e, exc, events], the events being those a listener is sent
ecsLoadStream(e, tokens) ==
    IF ~expects(tokens, 1, <<"u32", "u32">>) THEN [e |-> e, exc |-> "Desync", events |-> <<>>]
    ELSE IF tokens[1].v > streamVersion THEN [e |-> e, exc |-> "BadStreamVersion", events |-> <<>>]
    ELSE LET r == loadArchetypes(onEveryArchetype(e, reset), tokens, 3, tokens[2].v, tokens[1].v)
             started == <<Event("LoadStart", 0, "")>> \o r.events
         IN IF r.exc # "none" THEN [e |-> r.e, exc |-> r.exc, events |-> started]
            ELSE [e |-> onEveryArchetype(r.e, performMaintenance), exc |-> "none",
                  events |-> started \o <<Event("LoadFinished", 0, "")>>]

\* the SaveComponent events of ArchetypeHelper::save: one for every column
\* that is not empty
RECURSIVE saveComponentEvents(_, _, _)
saveComponentEvents(a, comps, k) ==
    IF ~AllowSerialization \/ k > Len(comps) THEN <<>>
    ELSE (IF size(a.m_tuple[comps[k]]) = 0 THEN <<>> ELSE <<Event("SaveComponent", 0, comps[k])>>)
         \o saveComponentEvents(a, comps, k + 1)

\* the events of the loop of Ecs::save over m_archetypes
RECURSIVE saveArchetypesEvents(_, _)
saveArchetypesEvents(archetypes, k) ==
    IF k > Len(archetypes) THEN <<>>
    ELSE sentBy(archetypes[k].id,
                saveComponentEvents(archetypes[k].a, componentsOf(archetypes[k].archetype), 1))
         \o saveArchetypesEvents(archetypes, k + 1)

\* the events a listener is sent by Ecs::save
ecsSaveEvents(e) ==
    <<Event("SaveStart", 0, "")>> \o saveArchetypesEvents(e.m_archetypes, 1)
    \o <<Event("SaveFinished", 0, "")>>

(***************************************************************************)
(* The template instances explored.                                        *)
(***************************************************************************)
\* noClean: the components of the archetype whose type is declared with
\* ComponentFlagNoCleanComponent
Config(storage, N, flags) == [storage |-> storage, N |-> N, flags |-> flags, noClean |-> {}]

Configs ==
    { Config("arr", 1, {ArchetypeFlagNeverSerialize}),
      Config("arr", ArrayN, {ArchetypeFlagNeverSerialize}),
      Config("arr", SmallArrayN, {ArchetypeFlagCompressableNoEntities, ArchetypeFlagNeverSerialize}),
      Config("arr", SmallArrayN, {ArchetypeFlagWithCreateDeleteTracking, ArchetypeFlagNeverSerialize}),
      Config("vec", 0, {}),
      Config("vec", 0, {ArchetypeFlagCompressableNoEntities, ArchetypeFlagAutoCompressNCalls,
                        ArchetypeFlagNeverSerialize}),
      Config("vec", 0, {ArchetypeFlagCompressableNoEntities, ArchetypeFlagAutoCompressFreeThreshold,
                        ArchetypeFlagNeverSerialize}),
      Config("vec", 0, {ArchetypeFlagAutoReserveNLeft, ArchetypeFlagNeverSerialize}),
      Config("vec", 0, {ArchetypeFlagAutoReserveFullThreshold, ArchetypeFlagNeverSerialize}) }

\* the archetype with a single slot: its versions are explored all the way round
SingleSlot == ~canReallocate /\ cfg.N = 1

(***************************************************************************)
(* History variables.  issued: the ids handed out by create that were not  *)
(* removed or reset away since.  removed: one id whose removal (or reset)  *)
(* took effect, with the number of later removals of the same slot and     *)
(* whether the slot table was rebuilt since (reset, load, compress). Which *)
(* removal is followed is chosen freely, except that the one-slot          *)
(* archetype keeps following a removal until the table is rebuilt and      *)
(* follows a reset only of an id of version <= MaxVersion, so that all of  *)
(* its 127 versions stay within reach, and that an id whose table was      *)
(* rebuilt is given up for the next id that is removed.                    *)
(***************************************************************************)
NoRemoved == [watching |-> FALSE, id |-> EntityInvalidId, age |-> 0, rebuilt |-> FALSE]

Removed(id, rebuilt) == [watching |-> TRUE, id |-> id, age |-> 0, rebuilt |-> rebuilt]

NoCall == [op |-> "none", arg |-> 0, ret |-> EntityInvalidId, ent |-> EmptyEntity,
           exc |-> "none", hooks |-> <<>>]

Call(op, arg, r) == [op |-> op, arg |-> arg, ret |-> r.ret, ent |-> EmptyEntity,
                     exc |-> r.exc, hooks |-> r.hooks]

EntityCall(op, arg, r) == [op |-> op, arg |-> arg, ret |-> r.ret.m_id, ent |-> r.ret,
                           exc |-> r.exc, hooks |-> r.hooks]

PlainCall(op, arg) == [NoCall EXCEPT !.op = op, !.arg = arg]

historyCreated(id) ==
    /\ issued' = IF id = EntityInvalidId THEN issued ELSE issued \cup {id}
    /\ removed' = removed

aged(id) ==
    IF removed.watching /\ indexFromId(removed.id) = indexFromId(id)
       /\ ~removed.rebuilt /\ removed.age < VersionRange
    THEN [removed EXCEPT !.age = @ + 1]
    ELSE removed

historyRemoved(id) ==
    /\ issued' = issued \ {id}
    /\ \/ /\ ~SingleSlot \/ ~removed.watching \/ removed.rebuilt \/ removed.id = id
          /\ removed' = Removed(id, FALSE)
       \/ removed.watching /\ ~removed.rebuilt /\ removed.id # id /\ removed' = aged(id)

historyReset ==
    /\ issued' = {}
    /\ \/ removed.watching /\ removed' = Removed(removed.id, TRUE)
       \/ ~removed.watching /\ removed' = removed
       \/ \E id \in issued :
            /\ versionFromId(id) <= MaxVersion
            /\ removed' = Removed(id, TRUE)

historyRebuilt(changed) ==
    /\ issued' = issued
    /\ removed' = IF changed /\ removed.watching THEN Removed(removed.id, TRUE) ELSE removed

\* the tracked archetype whose change log is followed over several entries
TrackConfig == Config("arr", SmallArrayN, {ArchetypeFlagWithCreateDeleteTracking})

logLimit == IF cfg = TrackConfig THEN MaxTracked ELSE MaxLog

logRoom == ~(WithCreateDeleteTracking /\ m_enabled) \/ Len(m_changes) < logLimit

previousVersion(version) == IF version <= 1 THEN VersionRange - 1 ELSE version - 1

\* the ids tried as arguments: for every slot its current id and the id one
\* version older, an id beyond the end, and the invalid id
CandidateIds ==
    {idFromIndexAndState(i, at(m_state, i)) : i \in 0..(size(m_state) - 1)}
    \cup {idFromIndexAndVersion(i, previousVersion(versionFromState(at(m_state, i)))) :
            i \in 0..(size(m_state) - 1)}
    \cup {idFromIndexAndVersion(size(m_state), EntityIndexVersionStart), EntityInvalidId}

\* the handles tried as arguments: the empty handle, a handle of another
\* archetype, the current handle of every slot and one outdated handle
CandidateEntities ==
    {EmptyEntity, Entity(idFromIndexAndVersion(0, EntityIndexVersionStart), "other")}
    \cup {Entity(idFromIndexAndState(i, at(m_state, i)), "this") : i \in 0..(size(m_state) - 1)}
    \cup {Entity(idFromIndexAndVersion(0, previousVersion(versionFromState(at(m_state, 0)))), "this") :
            i \in {0} \cap 0..(size(m_state) - 1)}

(***************************************************************************)
(* Init and the operations.                                                *)
(***************************************************************************)
\* the state the constructors of Archetype and Ecs leave behind
ConstructedEcs ==
    /\ m_tuple = [c \in ComponentNames |-> NewStorage]
    /\ m_state = NewStorage
    /\ m_free = NewStorage
    /\ m_changes = <<>>
    /\ m_enabled = TRUE
    /\ m_currentCalls = 0
    /\ m_nCalls = DefaultNCalls
    /\ m_nLeft = DefaultNLeft
    /\ stream = NoStream
    /\ last = NoCall
    /\ issued = {}
    /\ removed = NoRemoved
    /\ m_archetypes = <<>>
    /\ m_archetypesById = [id \in ArchetypeIds |-> NullArchetype]
    /\ m_listener = FALSE
    /\ pass = NoPass

\* ... and of the iterator of TimerSystem, ComponentIterator<1, TimerComponent>
Constructed == ConstructedEcs /\ iterator = NewIterator(1, {"Timer"})

Init == cfg \in Configs /\ Constructed

\* IArchetype::create()
Create ==
    /\ logRoom
    /\ LET r == create(Self, EntityInvalidIndex) IN
        /\ Install(r.a)
        /\ last' = Call("create", EntityInvalidIndex, r)
        /\ historyCreated(r.ret)
    /\ UNCHANGED <<ecsVars, cfg, stream>>

\* IArchetype::create(requestedIndex)
CreateRequested ==
    /\ logRoom
    /\ \E requestedIndex \in 0..(size(m_state) + 1) :
        LET r == create(Self, requestedIndex) IN
        /\ Install(r.a)
        /\ last' = Call("createRequested", requestedIndex, r)
        /\ historyCreated(r.ret)
    /\ UNCHANGED <<ecsVars, cfg, stream>>

\* IArchetype::createEntity()
CreateEntity ==
    /\ logRoom
    /\ LET r == createEntity(Self) IN
        /\ Install(r.a)
        /\ last' = EntityCall("createEntity", 0, r)
        /\ historyCreated(r.ret.m_id)
    /\ UNCHANGED <<ecsVars, cfg, stream>>

\* IArchetype::duplicateEntity(entity)
DuplicateEntity ==
    /\ logRoom
    /\ \E other \in CandidateEntities :
        LET r == duplicateEntity(Self, other) IN
        /\ Install(r.a)
        /\ last' = EntityCall("duplicateEntity", other, r)
        /\ historyCreated(r.ret.m_id)
    /\ UNCHANGED <<ecsVars, cfg, stream>>

\* IArchetype::remove(id), which Entity::remove and removeEntity forward to
Remove ==
    /\ \E id \in CandidateIds :
        LET r == remove(Self, id)
            effective == extractIndex(Self, id).ok
        IN
        /\ effective =>
              /\ logRoom
              /\ SingleSlot \/ versionFromId(id) < MaxVersion
        /\ Install(r.a)
        /\ last' = Call("remove", id, r)
        /\ IF effective THEN historyRemoved(id) ELSE UNCHANGED <<issued, removed>>
    /\ UNCHANGED <<ecsVars, cfg, stream>>

\* IArchetype::compress()
Compress ==
    /\ LET a == compress(Self) IN
        /\ Install(a)
        /\ historyRebuilt(a.m_state.data # m_state.data)
    /\ last' = PlainCall("compress", 0)
    /\ UNCHANGED <<ecsVars, cfg, stream>>

\* Archetype::reserve(capacity)
Reserve ==
    /\ \E capacity \in 1..MaxCapacity :
        /\ Install(reserve(Self, capacity))
        /\ last' = PlainCall("reserve", capacity)
    /\ UNCHANGED <<ecsVars, cfg, stream, issued, removed>>

\* IArchetype::enlarge()
Enlarge ==
    /\ archCapacity(Self) * 2 <= MaxCapacity
    /\ Install(enlarge(Self))
    /\ last' = PlainCall("enlarge", 0)
    /\ UNCHANGED <<ecsVars, cfg, stream, issued, removed>>

\* IArchetype::performMaintenance()
PerformMaintenance ==
    /\ AutoCompressNCallsEnabled => (m_currentCalls < MaxCalls \/ m_currentCalls >= m_nCalls)
    /\ LET a == performMaintenance(Self) IN
        /\ a.m_state.capacity <= MaxCapacity
        /\ Install(a)
        /\ historyRebuilt(a.m_state.data # m_state.data)
    /\ last' = PlainCall("performMaintenance", 0)
    /\ UNCHANGED <<ecsVars, cfg, stream>>

\* IArchetype::reset()
Reset ==
    /\ Install(reset(Self))
    /\ historyReset
    /\ last' = PlainCall("reset", 0)
    /\ UNCHANGED <<ecsVars, cfg, stream>>

\* AutoCompressNCalls<true>::setAutoCompressNCalls
SetAutoCompressNCalls ==
    /\ AutoCompressNCallsEnabled
    /\ \E ncalls \in 1..MaxSetting :
        /\ m_nCalls' = ncalls
        /\ last' = PlainCall("setAutoCompressNCalls", ncalls)
    /\ UNCHANGED <<ecsVars, cfg, m_tuple, m_state, m_free, m_changes, m_enabled, m_currentCalls, m_nLeft,
                   stream, issued, removed>>

\* AutoReserveNLeft<true>::setAutoReserveNLeft
SetAutoReserveNLeft ==
    /\ AutoReserveNLeftEnabled
    /\ \E nleft \in 0..MaxSetting :
        /\ m_nLeft' = nleft
        /\ last' = PlainCall("setAutoReserveNLeft", nleft)
    /\ UNCHANGED <<ecsVars, cfg, m_tuple, m_state, m_free, m_changes, m_enabled, m_currentCalls, m_nCalls,
                   stream, issued, removed>>

\* IArchetype::enableEntityTracking(enabled)
EnableEntityTracking ==
    /\ WithCreateDeleteTracking
    /\ \E enabled \in BOOLEAN :
        /\ m_enabled' = enabled
        /\ last' = PlainCall("enableEntityTracking", IF enabled THEN 1 ELSE 0)
    /\ UNCHANGED <<ecsVars, cfg, m_tuple, m_state, m_free, m_changes, m_currentCalls, m_nCalls, m_nLeft,
                   stream, issued, removed>>

\* IArchetype::resetTrackedEntities()
ResetTrackedEntities ==
    /\ WithCreateDeleteTracking
    /\ m_changes' = <<>>
    /\ last' = PlainCall("resetTrackedEntities", 0)
    /\ UNCHANGED <<ecsVars, cfg, m_tuple, m_state, m_free, m_enabled, m_currentCalls, m_nCalls, m_nLeft,
                   stream, issued, removed>>

\* Ecs::save: the archetype's body is written to the stream
Save ==
    /\ AllowSerialization
    /\ size(m_state) <= MaxSaved
    /\ stream' = save(Self)
    /\ last' = PlainCall("save", 0)
    /\ UNCHANGED <<ecsVars, cfg, archVars, issued, removed>>

\* Ecs::load of the stream written by the last save
Load ==
    /\ stream.written
    /\ LET a == ecsLoad(Self, stream) IN
        /\ a.m_state.capacity <= MaxCapacity
        /\ Install(a)
    /\ historyReset
    /\ last' = PlainCall("load", 0)
    /\ UNCHANGED <<ecsVars, cfg, stream>>

\* the process ends and a new one constructs the archetype afresh; a stream
\* that was saved outlives it
Restart ==
    /\ stream.written
    /\ m_tuple' = [c \in ComponentNames |-> NewStorage]
    /\ m_state' = NewStorage
    /\ m_free' = NewStorage
    /\ m_changes' = <<>>
    /\ m_enabled' = TRUE
    /\ m_currentCalls' = 0
    /\ m_nCalls' = DefaultNCalls
    /\ m_nLeft' = DefaultNLeft
    /\ historyReset
    /\ last' = PlainCall("restart", 0)
    /\ UNCHANGED <<ecsVars, cfg, stream>>

Next ==
    \/ Create
    \/ CreateRequested
    \/ CreateEntity
    \/ DuplicateEntity
    \/ Remove
    \/ Compress
    \/ Reserve
    \/ Enlarge
    \/ PerformMaintenance
    \/ Reset
    \/ SetAutoCompressNCalls
    \/ SetAutoReserveNLeft
    \/ EnableEntityTracking
    \/ ResetTrackedEntities
    \/ Save
    \/ Load
    \/ Restart

Spec == Init /\ [][Next]_vars

\* a compressible archetype of ArrayN slots, where holes before, between and
\* behind live slots occur
CompressConfig ==
    Config("arr", ArrayN, {ArchetypeFlagCompressableNoEntities, ArchetypeFlagNeverSerialize})

InitCompress == cfg = CompressConfig /\ Constructed

NextCompress ==
    \/ Create
    \/ CreateRequested
    \/ Remove
    \/ Compress
    \/ Reset

SpecCompress == InitCompress /\ [][NextCompress]_vars

(***************************************************************************)
(* Compression of cells that carry values: a compressible archetype of     *)
(* MoveN slots whose caller gives every cell it creates a value of its     *)
(* own, so that the cell compress() moves into a hole can be told from the *)
(* others.                                                                 *)
(***************************************************************************)
MoveConfig ==
    Config("arr", MoveN, {ArchetypeFlagCompressableNoEntities, ArchetypeFlagNeverSerialize})

\* the value the caller writes into the cell of a slot it has just created
tagOf(index) == index + 1

\* create() and the write of the new cell's fields, as the caller of a
\* compressible archetype does it (create hands out the id, the id gives
\* the cell)
CreateFilled ==
    /\ LET r == create(Self, EntityInvalidIndex)
           index == indexFromId(r.ret)
       IN
        /\ r.ret # EntityInvalidId
        /\ Install([r.a EXCEPT
                       !.m_tuple["Position"] = put(@, index, tagOf(index)),
                       !.m_tuple["Timer"] = put(@, index, [at(@, index) EXCEPT !.timeLeft = tagOf(index)])])
        /\ last' = Call("create", EntityInvalidIndex, r)
    /\ UNCHANGED <<ecsVars, cfg, stream, issued, removed>>

\* remove(id) of a live cell
RemoveCell ==
    /\ \E index \in 0..(size(m_state) - 1) :
        LET id == idFromIndexAndState(index, at(m_state, index))
            r == remove(Self, id)
        IN
        /\ ~emptyFromState(at(m_state, index))
        /\ versionFromId(id) < MaxVersion
        /\ Install(r.a)
        /\ last' = Call("remove", id, r)
    /\ UNCHANGED <<ecsVars, cfg, stream, issued, removed>>

\* compress() of the archetype that holds the cells
CompressCells ==
    /\ Install(compress(Self))
    /\ last' = PlainCall("compress", 0)
    /\ UNCHANGED <<ecsVars, cfg, stream, issued, removed>>

InitMove == cfg = MoveConfig /\ Constructed

NextMove == CreateFilled \/ RemoveCell \/ CompressCells

SpecMove == InitMove /\ [][NextMove]_vars

(***************************************************************************)
(* Archetype::remove(id) step by step, with preDestroy hooks that act.     *)
(* While a remove is in progress last.op is "removing", last.arg is the id *)
(* and last.hooks holds, for every hook that has run, what it found: the   *)
(* answer of validateId(id), the cells of the slot, and the id it got from *)
(* create() when it called it.                                             *)
(***************************************************************************)
\* Position is of a type declared with ComponentFlagNoCleanComponent
HookConfig == [Config("arr", SmallArrayN, {ArchetypeFlagNeverSerialize}) EXCEPT !.noClean = {"Position"}]

Removing == last.op = "removing"

cellsAt(index) == [c \in ComponentNames |-> at(m_tuple[c], index)]

HookRun(h, id, created) ==
    [component |-> h.component, index |-> h.index, valid |-> validateId(id),
     cells |-> cellsAt(h.index), created |-> created]

\* create() and the write of the new cell, between removes
CreateOutside == ~Removing /\ logRoom /\ CreateFilled

\* enableEntityTracking(), between removes
TrackOutside == ~Removing /\ EnableEntityTracking

\* remove(id) is called: extractIndex, registerDeletedEntity, the version
\* bump with the empty bit, the push onto m_free
RemoveBegin ==
    /\ ~Removing
    /\ \E id \in CandidateIds :
        LET ex == extractIndex(Self, id) IN
        IF ex.ok
        THEN /\ logRoom
             /\ versionFromId(id) < MaxVersion
             /\ Install(unlinked(Self, id, ex.index))
             /\ last' = PlainCall("removing", id)
        ELSE /\ UNCHANGED archVars
             /\ last' = PlainCall("remove", id)
    /\ UNCHANGED <<ecsVars, cfg, stream, issued, removed>>

\* the next component's preDestroy() runs; it returns at once, or it calls
\* create() on the archetype first
PreDestroyHook ==
    /\ Removing
    /\ Len(last.hooks) < Len(preDestroyCalls(indexFromId(last.arg)))
    /\ LET h == preDestroyCalls(indexFromId(last.arg))[Len(last.hooks) + 1] IN
       \/ /\ UNCHANGED archVars
          /\ last' = [last EXCEPT !.hooks = Append(@, HookRun(h, last.arg, EntityInvalidId))]
       \/ LET r == create(Self, EntityInvalidIndex) IN
          /\ logRoom
          /\ Install(r.a)
          /\ last' = [last EXCEPT !.hooks = Append(@, HookRun(h, last.arg, r.ret))]
    /\ UNCHANGED <<ecsVars, cfg, stream, issued, removed>>

\* the hooks have run: the cells of the slot are cleaned and remove returns
RemoveFinish ==
    /\ Removing
    /\ Len(last.hooks) = Len(preDestroyCalls(indexFromId(last.arg)))
    /\ Install(cleaned(Self, indexFromId(last.arg)))
    /\ last' = [last EXCEPT !.op = "remove"]
    /\ UNCHANGED <<ecsVars, cfg, stream, issued, removed>>

InitHook ==
    /\ cfg \in {HookConfig, Config("arr", SmallArrayN, {ArchetypeFlagNeverSerialize}), TrackConfig}
    /\ Constructed

NextHook == CreateOutside \/ TrackOutside \/ RemoveBegin \/ PreDestroyHook \/ RemoveFinish

SpecHook == InitHook /\ [][NextHook]_vars

InitTrack == cfg = TrackConfig /\ Constructed

NextTrack ==
    \/ Create
    \/ CreateRequested
    \/ CreateEntity
    \/ DuplicateEntity
    \/ Remove
    \/ Reset
    \/ EnableEntityTracking
    \/ ResetTrackedEntities

SpecTrack == InitTrack /\ [][NextTrack]_vars

(***************************************************************************)
(* The operations of the registry.  While a forEach call is in progress    *)
(* only its callbacks act.                                                 *)
(***************************************************************************)
\* the component sets asked for by forEach<...>
QueryMasks == {{"Position"}, {"Timer"}, {"Position", "Draw"}}

RegistryCall(op, type, id, r) ==
    [op |-> op, arg |-> id, type |-> type, ret |-> r.ret, ent |-> EmptyEntity,
     exc |-> r.exc, hooks |-> r.hooks]

\* the ids a callback or a caller may hold of entry k: the current id of every slot
HeldIds(k) ==
    {idFromIndexAndState(i, at(m_archetypes[k].a.m_state, i)) :
        i \in 0..(size(m_archetypes[k].a.m_state) - 1)}

\* a removal that is explored: it takes effect and the version stays in bounds
Removable(k, id) ==
    /\ extractIndex(m_archetypes[k].a, id).ok
    /\ versionFromId(id) < MaxVersion

\* Ecs::registerArchetype<type>(name, id)
RegisterArchetype ==
    /\ ~pass.active
    /\ \E type \in ArchetypeTypes, id \in ArchetypeIds :
        LET r == registerArchetype(Registry, m_listener, type, id) IN
        /\ m_archetypes' = r.e.m_archetypes
        /\ m_archetypesById' = r.e.m_archetypesById
        /\ last' = RegistryCall("registerArchetype", type, id, r)
        /\ iterator' = [iterator EXCEPT !.changed = @ \/ (iterator.initialized /\ r.exc = "none")]
    /\ UNCHANGED <<cfg, archVars, stream, issued, removed, m_listener, pass>>

\* Ecs::reset()
EcsReset ==
    /\ ~pass.active
    /\ m_archetypes' = ecsReset(Registry).m_archetypes
    /\ m_archetypesById' = ecsReset(Registry).m_archetypesById
    /\ last' = PlainCall("ecsReset", 0)
    /\ iterator' = [iterator EXCEPT
                       !.changed = @ \/ (iterator.initialized /\ m_archetypes # <<>>),
                       !.dangling = {n \in 1..iterator.Max :
                                        iterator.m_archetypes[n] # NullArchetype}]
    /\ UNCHANGED <<cfg, archVars, stream, issued, removed, m_listener, pass>>

\* Ecs::setListener(listener)
SetListener ==
    /\ ~pass.active
    /\ \E listener \in BOOLEAN :
        /\ m_listener' = listener
        /\ last' = PlainCall("setListener", IF listener THEN 1 ELSE 0)
    /\ UNCHANGED <<cfg, archVars, iterator, stream, issued, removed, m_archetypes, m_archetypesById, pass>>

\* IArchetype::create() on a registered archetype
CreateIn ==
    /\ ~pass.active
    /\ \E k \in 1..Len(m_archetypes) :
        LET r == create(m_archetypes[k].a, EntityInvalidIndex) IN
        /\ m_archetypes' = [m_archetypes EXCEPT ![k].a = r.a]
        /\ last' = Call("create", k, r)
    /\ UNCHANGED <<cfg, archVars, iterator, stream, issued, removed, m_archetypesById, m_listener, pass>>

\* IArchetype::remove(id) on a registered archetype
RemoveIn ==
    /\ ~pass.active
    /\ \E k \in 1..Len(m_archetypes) : \E id \in HeldIds(k) :
        /\ extractIndex(m_archetypes[k].a, id).ok => Removable(k, id)
        /\ m_archetypes' = [m_archetypes EXCEPT ![k].a = remove(@, id).a]
        /\ last' = PlainCall("remove", id)
    /\ UNCHANGED <<cfg, archVars, iterator, stream, issued, removed, m_archetypesById, m_listener, pass>>

\* Ecs::forEach<...> / Ecs::forEachWithEntity<...> is called
ForEachBegin ==
    /\ ~pass.active
    /\ \E componentMask \in QueryMasks, withEntity \in BOOLEAN :
        /\ pass' = StartedPass(componentMask, withEntity, countEntities(m_archetypes))
        /\ last' = PlainCall(IF withEntity THEN "forEachWithEntity" ELSE "forEach", 0)
    /\ UNCHANGED <<cfg, archVars, iterator, stream, issued, removed, m_archetypes, m_archetypesById,
                   m_listener>>

\* the outer loop: the inner loop of the entry has run to its end, or the
\* entry is tested against the mask and its inner loop starts
ForEachArchetype ==
    /\ pass.active
    /\ pass.entry <= Len(m_archetypes)
    /\ IF pass.inside
       THEN /\ pass.index = pass.end
            /\ pass' = [pass EXCEPT !.inside = FALSE, !.entry = @ + 1]
       ELSE IF matches(m_archetypes[pass.entry], pass.componentMask)
       THEN pass' = [pass EXCEPT !.inside = TRUE, !.index = 0,
                                 !.end = stateEnd(m_archetypes[pass.entry].a)]
       ELSE pass' = [pass EXCEPT !.entry = @ + 1]
    /\ UNCHANGED <<cfg, archVars, iterator, stream, last, issued, removed, m_archetypes, m_archetypesById,
                   m_listener>>

\* one turn of the inner loop: the state byte is tested, the callback is
\* called for a cell that is not tombstoned, the cursors move on.  The
\* callback removes nothing, or one entity of a registered archetype (the
\* one it was handed or another).
ForEachCell ==
    /\ pass.active
    /\ pass.inside
    /\ pass.index # pass.end
    /\ LET entry == m_archetypes[pass.entry]
           called == yields(at(entry.a.m_state, pass.index))
           moved == [pass EXCEPT !.index = @ + 1,
                                 !.yielded = IF called
                                             THEN Append(@, Yielded(entry, pass.index, pass.withEntity))
                                             ELSE @]
       IN \/ /\ pass' = moved
             /\ UNCHANGED m_archetypes
          \/ /\ called
             /\ \E k \in 1..Len(m_archetypes) : \E id \in HeldIds(k) :
                  /\ Removable(k, id)
                  /\ m_archetypes' = [m_archetypes EXCEPT ![k].a = remove(@, id).a]
                  /\ pass' = [moved EXCEPT !.removals = @ + 1]
    /\ UNCHANGED <<cfg, archVars, iterator, stream, last, issued, removed, m_archetypesById,
                   m_listener>>

\* the outer loop has run past the last entry: the call returns
ForEachEnd ==
    /\ pass.active
    /\ ~pass.inside
    /\ pass.entry > Len(m_archetypes)
    /\ pass' = NoPass
    /\ UNCHANGED <<cfg, archVars, iterator, stream, last, issued, removed, m_archetypes, m_archetypesById,
                   m_listener>>

\* the registry, with archetypes of bounded storage
EcsConfig == Config("arr", SmallArrayN, {ArchetypeFlagNeverSerialize})

InitEcs == cfg = EcsConfig /\ Constructed

NextEcs ==
    \/ RegisterArchetype
    \/ EcsReset
    \/ SetListener
    \/ CreateIn
    \/ RemoveIn
    \/ ForEachBegin
    \/ ForEachArchetype
    \/ ForEachCell
    \/ ForEachEnd

SpecEcs == InitEcs /\ [][NextEcs]_vars

(***************************************************************************)
(* A forEach call whose callback creates entities.  Every creation is kept *)
(* in pass.created: the entry and the index of the new slot, whether the   *)
(* state vector grew, the entry and the index the pass was at, and how     *)
(* many cells had been handed out by then (the one in hand included).      *)
(***************************************************************************)
Created(k, r, before, moved) ==
    [entry |-> k, index |-> indexFromId(r.ret),
     grown |-> size(r.a.m_state) > size(before.m_state),
     atEntry |-> moved.entry, atIndex |-> moved.index - 1, after |-> Len(moved.yielded)]

\* one turn of the inner loop, as in ForEachCell.  The callback does
\* nothing, or calls create() on a registered archetype, or removes the
\* entity it was handed and calls create() on the archetype of that entity.
ForEachCellCreating ==
    /\ pass.active
    /\ pass.inside
    /\ pass.index # pass.end
    /\ LET entry == m_archetypes[pass.entry]
           called == yields(at(entry.a.m_state, pass.index))
           moved == [pass EXCEPT !.index = @ + 1,
                                 !.yielded = IF called
                                             THEN Append(@, Yielded(entry, pass.index, pass.withEntity))
                                             ELSE @]
       IN \/ /\ pass' = moved
             /\ UNCHANGED m_archetypes
          \/ /\ called
             /\ \E k \in 1..Len(m_archetypes) :
                  LET r == create(m_archetypes[k].a, EntityInvalidIndex) IN
                  /\ r.ret # EntityInvalidId
                  /\ m_archetypes' = [m_archetypes EXCEPT ![k].a = r.a]
                  /\ pass' = [moved EXCEPT
                                 !.created = Append(@, Created(k, r, m_archetypes[k].a, moved))]
          \/ /\ called
             /\ LET id == idFromIndexAndState(pass.index, at(entry.a.m_state, pass.index))
                    removing == remove(entry.a, id)
                    r == create(removing.a, EntityInvalidIndex)
                IN
                /\ Removable(pass.entry, id)
                /\ r.ret # EntityInvalidId
                /\ m_archetypes' = [m_archetypes EXCEPT ![pass.entry].a = r.a]
                /\ pass' = [moved EXCEPT
                               !.removals = @ + 1,
                               !.created = Append(@, Created(pass.entry, r, removing.a, moved))]
    /\ UNCHANGED <<cfg, archVars, iterator, stream, last, issued, removed, m_archetypesById,
                   m_listener>>

NextPass ==
    \/ RegisterArchetype
    \/ CreateIn
    \/ RemoveIn
    \/ ForEachBegin
    \/ ForEachArchetype
    \/ ForEachCellCreating
    \/ ForEachEnd

SpecPass == InitEcs /\ [][NextPass]_vars

(***************************************************************************)
(* A ComponentIterator on the registry: the ComponentIterator<1,           *)
(* TimerComponent> of TimerSystem, or a ComponentIterator<2,               *)
(* PositionComponent>.                                                     *)
(***************************************************************************)
Iterators == {NewIterator(1, {"Timer"}), NewIterator(MaxIteratorMax, {"Position"})}

IterateCall(op, yielded, exc) == [NoCall EXCEPT !.op = op, !.hooks = yielded, !.exc = exc]

\* ComponentIterator::initialize(ecs); a failed assertion ends the process
Initialize ==
    /\ LET r == initialize(iterator, Registry) IN
        /\ iterator' = r.it
        /\ last' = IterateCall("initialize", <<>>, r.exc)
    /\ UNCHANGED <<cfg, archVars, stream, issued, removed, m_archetypes, m_archetypesById,
                   m_listener, pass>>

\* ComponentIterator::iterate(pr) / iterateEntity(pr), the callback changing
\* nothing.  A call through a pointer to an archetype that Ecs::reset has
\* destroyed ends the process or finds the storage the destructor emptied.
Iterate ==
    /\ \E withEntity \in BOOLEAN :
        \E fault \in {FALSE, reached(iterator) \cap iterator.dangling # {}} :
            LET op == IF withEntity THEN "iterateEntity" ELSE "iterate" IN
            last' = IF fault THEN IterateCall(op, <<>>, "fault")
                    ELSE IterateCall(op, iterate(iterator, m_archetypes, 1, withEntity), "none")
    /\ UNCHANGED <<cfg, archVars, iterator, stream, issued, removed, m_archetypes,
                   m_archetypesById, m_listener, pass>>

\* IArchetype::create() on a registered archetype, while the registry holds
\* fewer than MaxIteratedSlots slots
CreateIterated ==
    /\ slotCount(m_archetypes) < MaxIteratedSlots
    /\ CreateIn

InitIterator ==
    /\ cfg = EcsConfig
    /\ ConstructedEcs
    /\ iterator \in Iterators

NextIterator ==
    \/ RegisterArchetype
    \/ EcsReset
    \/ CreateIterated
    \/ RemoveIn
    \/ Initialize
    \/ Iterate

SpecIterator == InitIterator /\ [][NextIterator]_vars

(***************************************************************************)
(* Save and load between registries.  The registry that is followed saves  *)
(* and a registry loads the stream: the saving one itself, or one that was *)
(* constructed and registered otherwise (other ids, other component lists, *)
(* other FixedSizedArray<N>).  The loading registry is followed from there *)
(* on.  Besides the stream Ecs::save writes, the streams of other writers  *)
(* are loaded: of version 1, of a version newer than streamVersion, one in *)
(* which every column record occurs twice, and the stream that a registry  *)
(* without archetypes saves.                                               *)
(***************************************************************************)
\* the registered instances all of whose components are modelled
StreamedTypes == {"vs", "fas"}

\* the archetype as Archetype<..., FixedSizedArray<N>, ...> constructs it
sized(a, N) ==
    [a EXCEPT !.m_state.capacity = N, !.m_free.capacity = N,
              !.m_tuple = [c \in ComponentNames |-> [@[c] EXCEPT !.capacity = N]]]

\* a registration: the instance, its id and the N of its storage
Registration(type, id, N) == [type |-> type, id |-> id, N |-> N]

\* the registry after the registrations regs, made on a new Ecs
RECURSIVE registered(_, _)
registered(e, regs) ==
    IF regs = <<>> THEN e
    ELSE LET r == registerArchetype(e, FALSE, Head(regs).type, Head(regs).id)
             n == Len(r.e.m_archetypes)
         IN registered(
                IF r.exc # "none" THEN r.e
                ELSE [r.e EXCEPT !.m_archetypes[n].a = sized(@, Head(regs).N)],
                Tail(regs))

NewEcs == [m_archetypes |-> <<>>, m_archetypesById |-> [id \in ArchetypeIds |-> NullArchetype]]

\* the registrations of the registries that load: none; the instance fas
\* alone, also with a smaller array; the instance vs under the id 1; both
\* instances
Loaders ==
    { <<>>,
      <<Registration("fas", 1, SmallArrayN)>>,
      <<Registration("fas", 1, 1)>>,
      <<Registration("vs", 1, SmallArrayN)>>,
      <<Registration("vs", 1, SmallArrayN), Registration("fas", 2, SmallArrayN)>> }

\* the registry that loads: the saving one, or a new one registered so
LoaderChoices ==
    {[same |-> TRUE, regs |-> <<>>]} \cup {[same |-> FALSE, regs |-> regs] : regs \in Loaders}

\* the registry a choice stands for
loaderOf(choice) == IF choice.same THEN Registry ELSE registered(NewEcs, choice.regs)

\* the streams: [format, v]
StreamKinds ==
    { [format |-> "v2", v |-> streamVersion], [format |-> "v1", v |-> 1],
      [format |-> "v2", v |-> streamVersion + 1], [format |-> "dup", v |-> streamVersion],
      [format |-> "new", v |-> streamVersion],
      [format |-> "long", v |-> streamVersion], [format |-> "short", v |-> streamVersion] }

\* the registry whose Ecs::save wrote the stream: format "new" is the stream
\* of a registry without archetypes
saverOf(kind) == IF kind.format = "new" THEN NewEcs ELSE Registry

streamOf(kind) == ecsSave(saverOf(kind), kind.format, kind.v)

\* a load into Array storage of more elements than N writes past the array
overrun(e) ==
    \E n \in 1..Len(e.m_archetypes) :
        size(e.m_archetypes[n].a.m_state) > e.m_archetypes[n].a.m_state.capacity

\* the loads that are made: the stream Ecs::save writes into every registry,
\* the other streams into the saving registry, and the stream of version 1
\* also into the registries that know fewer components or archetypes
Transfers ==
    {[loader |-> loader, kind |-> kind] : loader \in LoaderChoices, kind \in StreamKinds}
    \ {t \in [loader : LoaderChoices, kind : StreamKinds] :
          /\ ~t.loader.same
          /\ \/ t.kind.format \in {"dup", "new", "long", "short"}
             \/ t.kind.v > streamVersion
             \/ t.kind.format = "v1" /\ Len(t.loader.regs) # 1}

\* the archetype records of the stream Ecs::save writes of a registry: the id
\* of each and the instance that wrote its body
recordsOf(e) ==
    [k \in 1..Len(e.m_archetypes) |->
        [id |-> e.m_archetypes[k].id, archetype |-> e.m_archetypes[k].archetype]]

LoadCall(loader, kind, records, exc) ==
    [NoCall EXCEPT !.op = "ecsLoad",
                   !.arg = [loader |-> loader, kind |-> kind, records |-> records],
                   !.exc = exc]

\* Ecs::registerArchetype<type>(name, id) of a streamed instance, with a type
\* and an id the registry accepts (RegisterArchetype makes the calls that throw)
RegisterStreamed ==
    /\ \E type \in StreamedTypes, id \in ArchetypeIds :
        LET r == registerArchetype(Registry, m_listener, type, id) IN
        /\ r.exc = "none"
        /\ m_archetypes' = r.e.m_archetypes
        /\ m_archetypesById' = r.e.m_archetypesById
        /\ last' = RegistryCall("registerArchetype", type, id, r)
    /\ UNCHANGED <<cfg, archVars, iterator, stream, issued, removed, m_listener, pass>>

\* the loop of the serialization test: an entity is created and its fields
\* are written
Populate ==
    /\ ~overrun(Registry)
    /\ \E k \in 1..Len(m_archetypes), value \in 0..MaxPayload :
        LET r == create(m_archetypes[k].a, EntityInvalidIndex)
            index == indexFromId(r.ret)
        IN
        /\ r.ret # EntityInvalidId
        /\ slotCount(m_archetypes) - size(m_archetypes[k].a.m_state) + size(r.a.m_state)
              <= MaxStreamedSlots
        /\ m_archetypes' = [m_archetypes EXCEPT ![k].a =
              [r.a EXCEPT !.m_tuple["Position"] = put(@, index, value),
                          !.m_tuple["Timer"] =
                              put(@, index, [at(@, index) EXCEPT !.timeLeft = value])]]
        /\ last' = Call("create", k, r)
    /\ UNCHANGED <<cfg, archVars, iterator, stream, issued, removed, m_archetypesById, m_listener, pass>>

\* Ecs::save of the registry into a stream and Ecs::load of a stream of that
\* content by a registry; a load that overruns an array either goes on with
\* the overrun storage or ends the process, and a registry whose storage was
\* overrun is not saved or loaded into again
SaveLoad ==
    /\ ~overrun(Registry)
    /\ \E t \in Transfers :
        \E r \in {ecsLoadStream(loaderOf(t.loader), streamOf(t.kind))} :
        \E fault \in {FALSE, overrun(r.e)} :
            IF fault
            THEN /\ m_archetypes' = NewEcs.m_archetypes
                 /\ m_archetypesById' = NewEcs.m_archetypesById
                 /\ last' = LoadCall(t.loader, t.kind, recordsOf(saverOf(t.kind)), "fault")
            ELSE /\ m_archetypes' = r.e.m_archetypes
                 /\ m_archetypesById' = r.e.m_archetypesById
                 /\ last' = [LoadCall(t.loader, t.kind, recordsOf(saverOf(t.kind)), r.exc)
                                EXCEPT !.hooks = IF m_listener THEN r.events ELSE <<>>]
    /\ UNCHANGED <<cfg, archVars, iterator, stream, issued, removed, m_listener, pass>>

\* Ecs::save of the registry, watched by the listener
EcsSave ==
    /\ ~overrun(Registry)
    /\ m_listener
    /\ last' = [PlainCall("ecsSave", 0) EXCEPT !.hooks = ecsSaveEvents(Registry)]
    /\ UNCHANGED <<cfg, archVars, stream, issued, removed, ecsVars>>

\* the registry whose archetypes are streamed
LoadConfig == Config("arr", SmallArrayN, {})

InitLoad == cfg = LoadConfig /\ Constructed

NextLoad ==
    \/ RegisterStreamed
    \/ EcsReset
    \/ Populate
    \/ RemoveIn
    \/ SaveLoad

SpecLoad == InitLoad /\ [][NextLoad]_vars

(***************************************************************************)
(* A stream that is kept: Ecs::save writes it, the registry goes on being  *)
(* changed, and Ecs::load reads it into what the registry has become.      *)
(* stream holds the bytes and, as the content of the archetype records,    *)
(* the archetypes as they were when they were written.                     *)
(***************************************************************************)
ReplaceConfigs ==
    { LoadConfig,
      Config("arr", SmallArrayN, {ArchetypeFlagNeverSerialize}),
      Config("arr", SmallArrayN, {ArchetypeFlagWithCreateDeleteTracking}),
      Config("arr", SmallArrayN, {ArchetypeFlagCompressableNoEntities,
                                  ArchetypeFlagAutoCompressFreeThreshold}) }

\* what the archetype records of a stream hold: for every archetype its id
\* and, unless it is never serialized, its state bytes, its free indices and
\* its columns
recorded(archetypes) ==
    [k \in 1..Len(archetypes) |->
        [id |-> archetypes[k].id, archetype |-> archetypes[k].archetype,
         state |-> IF AllowSerialization THEN archetypes[k].a.m_state.data ELSE <<>>,
         free |-> IF AllowSerialization THEN archetypes[k].a.m_free.data ELSE <<>>,
         cells |-> [c \in ComponentNames |->
                      IF AllowSerialization THEN archetypes[k].a.m_tuple[c].data ELSE <<>>]]]

\* an entity is created and its fields are written
CreateKept ==
    /\ \E k \in 1..Len(m_archetypes) :
        LET r == create(m_archetypes[k].a, EntityInvalidIndex)
            index == indexFromId(r.ret)
        IN
        /\ r.ret # EntityInvalidId
        /\ slotCount(m_archetypes) - size(m_archetypes[k].a.m_state) + size(r.a.m_state)
              <= MaxStreamedSlots
        /\ m_archetypes' = [m_archetypes EXCEPT ![k].a =
              [r.a EXCEPT !.m_tuple["Position"] = put(@, index, tagOf(index)),
                          !.m_tuple["Timer"] =
                              put(@, index, [at(@, index) EXCEPT !.timeLeft = tagOf(index)])]]
        /\ last' = Call("create", k, r)
    /\ UNCHANGED <<cfg, archVars, iterator, stream, issued, removed, m_archetypesById, m_listener, pass>>

\* Ecs::save into the stream that is kept
SaveKept ==
    /\ stream' = [written |-> TRUE, tokens |-> ecsSave(Registry, "v2", streamVersion),
                  saved |-> recorded(m_archetypes)]
    /\ last' = PlainCall("ecsSave", 0)
    /\ UNCHANGED <<cfg, archVars, issued, removed, ecsVars>>

\* Ecs::load of the stream that is kept (last.arg: the slots the registry
\* had when load was called)
LoadKept ==
    /\ stream.written
    /\ \E r \in {ecsLoadStream(Registry, stream.tokens)} :
        /\ m_archetypes' = r.e.m_archetypes
        /\ m_archetypesById' = r.e.m_archetypesById
        /\ last' = [PlainCall("ecsLoad", slotCount(m_archetypes)) EXCEPT !.exc = r.exc]
    /\ UNCHANGED <<cfg, archVars, iterator, stream, issued, removed, m_listener, pass>>

InitReplace == cfg \in ReplaceConfigs /\ Constructed

NextReplace ==
    \/ RegisterStreamed
    \/ CreateKept
    \/ RemoveIn
    \/ SaveKept
    \/ LoadKept

SpecReplace == InitReplace /\ [][NextReplace]_vars

\* the same registry with a listener that is set and taken away
NextListen ==
    \/ RegisterStreamed
    \/ SetListener
    \/ Populate
    \/ SaveLoad
    \/ EcsSave

SpecListen == InitLoad /\ [][NextListen]_vars

(***************************************************************************)
(* Save and load with component values: the serializable instances, whose  *)
(* entities are given field values by the caller before they are saved.    *)
(***************************************************************************)
StreamConfigs ==
    { Config("vec", 0, {}),
      Config("arr", SmallArrayN, {}),
      Config("arr", SmallArrayN, {ArchetypeFlagCompressableNoEntities,
                                  ArchetypeFlagAutoCompressFreeThreshold}) }

\* the caller writes the fields of a live entity (Entity::fetch<C>() = ...)
WriteComponents ==
    /\ \E index \in 0..(size(m_state) - 1) : \E value \in 0..MaxPayload :
        /\ ~emptyFromState(at(m_state, index))
        /\ m_tuple' = [m_tuple EXCEPT
                          !["Position"] = put(@, index, value),
                          !["Timer"] = put(@, index, [at(@, index) EXCEPT !.timeLeft = value])]
        /\ last' = PlainCall("write", index)
    /\ UNCHANGED <<ecsVars, cfg, m_state, m_free, m_changes, m_enabled, m_currentCalls,
                   m_nCalls, m_nLeft, stream, issued, removed>>

\* the round trip of the serialization test: Ecs::save into a memory stream,
\* then Ecs::load of that stream into a registry with the same registration,
\* either the saving one or one that was just constructed; the receiving
\* archetype is the one that is followed from here on
RoundTrip ==
    /\ \E fresh \in BOOLEAN :
        LET a == ecsLoad(IF fresh THEN NewArchetype ELSE Self, save(Self)) IN
        /\ a.m_state.capacity <= MaxCapacity
        /\ Install(a)
        /\ last' = PlainCall("roundTrip", IF fresh THEN 1 ELSE 0)
    /\ historyReset
    /\ UNCHANGED <<ecsVars, cfg, stream>>

InitStream == cfg \in StreamConfigs /\ Constructed

NextStream ==
    \/ Create
    \/ CreateEntity
    \/ DuplicateEntity
    \/ Remove
    \/ Reserve
    \/ WriteComponents
    \/ RoundTrip

SpecStream == InitStream /\ [][NextStream]_vars

(***************************************************************************)
(* Properties.                                                             *)
(***************************************************************************)
creates == {"create", "createRequested", "createEntity", "duplicateEntity"}

\* the last call was a create that handed out an id
created == last.op \in creates /\ last.ret # EntityInvalidId

\* the last call was a remove that took effect (Timer's preDestroy ran)
removedNow == last.op = "remove" /\ last.hooks # <<>>

Slots == 0..(size(m_state) - 1)

tombstoned(i) == at(m_state, i) \div VersionRange # 0

freeIndices == {m_free.data[k] : k \in 1..Len(m_free.data)}

\* the version after v in the cycle 1, 2, ..., 127, 1, ...
nextVersion(v) == IF v < VersionRange - 1 THEN v + 1 ELSE 1

\* removals of a slot after which its version has come round again
WrapRemoves == VersionRange - 2

\* C1: in every reachable state a slot carries the tombstone bit exactly when
\* its index is in free, free holds no index twice and none beyond the slot
\* table, and size() = len(state) - len(free) counts the slots without the bit.
C1_SlotTable ==
    /\ \A i \in Slots : tombstoned(i) <=> i \in freeIndices
    /\ \A j, k \in 1..Len(m_free.data) : j # k => m_free.data[j] # m_free.data[k]
    /\ \A i \in freeIndices : i \in Slots
    /\ archSize(Self) = size(m_state) - size(m_free)
    /\ archSize(Self) = Cardinality({i \in Slots : ~tombstoned(i)})

\* C1 witness: a remove has just taken effect next to a live slot, and an
\* earlier tombstone is still waiting in free
C1_Witness ==
    /\ removedNow
    /\ size(m_free) >= 2
    /\ archSize(Self) >= 1

\* C2 as written: every id handed out and not removed or reset away since
\* validates, on every archetype and whatever was called in between.
C2_Original == \A id \in issued : validateId(id)

\* C2 amended: on an archetype that is not CompressableNoEntities every id
\* handed out by create, createEntity or duplicateEntity validates until it is
\* removed or the archetype is reset, whatever was called in between.
C2_IssuedStaysValid == AllowEntities => \A id \in issued : validateId(id)

\* C2 witness: two ids are out, the slot between them was removed and
\* compress was called
C2_Witness ==
    /\ AllowEntities
    /\ last.op = "compress"
    /\ Cardinality(issued) >= 2
    /\ removed.watching
    /\ size(m_free) >= 1

full == empty(m_free) /\ size(m_state) = m_state.capacity

columnCapacities == [c \in ComponentNames |-> m_tuple[c].capacity]

\* C6: a step of create, createEntity, duplicateEntity or remove leaves the
\* capacity of the state vector and of every column alone; only reserve,
\* enlarge, performMaintenance and load change them (and the construction of a
\* new archetype starts them afresh); and in every state every column has at
\* least the capacity of the state vector.
C6_NoHiddenReallocation ==
    [][/\ (m_state.capacity' # m_state.capacity \/ columnCapacities' # columnCapacities)
             => last'.op \in {"reserve", "enlarge", "performMaintenance", "load", "restart"}
       /\ \A c \in ComponentNames : m_tuple[c].capacity >= m_state.capacity
       /\ \A c \in ComponentNames : m_tuple'[c].capacity >= m_state'.capacity
       /\ \A c \in ComponentNames : size(m_tuple'[c]) <= m_tuple'[c].capacity]_vars

\* C6 witness: a create has just filled the last cell of a growable
\* archetype whose capacity was raised before
C6_Witness ==
    /\ canReallocate
    /\ last.op \in creates
    /\ last.ret # EntityInvalidId
    /\ m_state.capacity >= 2
    /\ size(m_state) = m_state.capacity
    /\ \A c \in ComponentNames : size(m_tuple[c]) = m_tuple[c].capacity

\* C7: with free not empty, create() takes the last element of free as the
\* slot, leaves len(state) alone, clears the tombstone bit, keeps the version
\* stored at removal and returns (index, that version), which validates; and a
\* create that follows an effective remove(id) returns the slot of id with the
\* next version, while id does not validate.
C7_SlotReuse ==
    [][/\ (last'.op = "create" /\ ~empty(m_free)) =>
             LET index == m_free.data[Len(m_free.data)]
                 version == at(m_state, index) % VersionRange
             IN /\ size(m_state') = size(m_state)
                /\ m_free'.data = SubSeq(m_free.data, 1, Len(m_free.data) - 1)
                /\ at(m_state', index) = version
                /\ \A i \in Slots \ {index} : at(m_state', i) = at(m_state, i)
                /\ last'.ret = index + version * IndexRange
                /\ validateIdIn(Self', last'.ret)
       /\ (removedNow /\ last'.op = "create") =>
             /\ last'.ret % IndexRange = last.arg % IndexRange
             /\ (last'.ret \div IndexRange) = nextVersion(last.arg \div IndexRange)
             /\ validateIdIn(Self', last'.ret)
             /\ ~validateIdIn(Self', last.arg)]_vars

\* C7 witness: two slots were free and a create took the one removed last,
\* which was not the lower one
C7_Witness ==
    /\ last.op = "create"
    /\ last.ret \div IndexRange >= 2
    /\ size(m_free) >= 1
    /\ last.ret % IndexRange > m_free.data[1]

\* C8: an effective remove of a slot of version v leaves the slot tombstoned
\* with version v + 1 when v < 127 and with version 1 when v = 127.
C8_VersionBump ==
    [][(last'.op = "remove" /\ last'.hooks # <<>>) =>
          LET index == last'.arg % IndexRange
              v == at(m_state, index) % VersionRange
          IN /\ at(m_state, index) \div VersionRange = 0
             /\ v = (last'.arg \div IndexRange) % VersionRange
             /\ at(m_state', index) % VersionRange = (IF v < 127 THEN v + 1 ELSE 1)
             /\ at(m_state', index) \div VersionRange = 1]_vars

\* C8 witness: the slot was created and removed 127 times and the next create
\* has returned version 1 again
C8_Witness ==
    /\ last.op = "create"
    /\ last.ret \div IndexRange = 1
    /\ removed.watching
    /\ ~removed.rebuilt
    /\ removed.age = WrapRemoves
    /\ removed.id = last.ret

\* C9: a create (create, create(requested), createEntity, duplicateEntity)
\* that takes a slot returns an id other than EntityInvalidId whose version is
\* in 1..127, and every id that is out has such a version.
C9_VersionNeverZero ==
    [][/\ (last'.op \in creates /\ m_state' # m_state) =>
             /\ last'.ret # EntityInvalidId
             /\ (last'.ret \div IndexRange) \in 1..127
       /\ \A id \in issued' : id # EntityInvalidId /\ (id \div IndexRange) \in 1..127]_vars

\* C9 witness: compress has left a live slot with version byte 0 and a create
\* has handed out an id next to it
C9_Witness ==
    /\ created
    /\ \E i \in Slots : at(m_state, i) = 0

\* the id fails extractIndex: index out of range, tombstoned slot, or
\* version mismatch
failsExtractIndex(id) ==
    \/ id % IndexRange >= size(m_state)
    \/ tombstoned(id % IndexRange)
    \/ (id \div IndexRange) % VersionRange # at(m_state, id % IndexRange) % VersionRange

\* C10: remove(id) with an id that fails extractIndex changes nothing and
\* invokes no preDestroy, and so does a second remove(id) right after the
\* first.
C10_RemoveIdempotent ==
    [][/\ (last'.op = "remove" /\ failsExtractIndex(last'.arg)) =>
             /\ UNCHANGED archVars
             /\ last'.hooks = <<>>
       /\ (last.op = "remove" /\ last'.op = "remove" /\ last'.arg = last.arg) =>
             /\ UNCHANGED archVars
             /\ last'.hooks = <<>>]_vars

\* C10 witness: the id whose removal has just taken effect was removed again
C10_Witness ==
    /\ last.op = "remove"
    /\ last.hooks = <<>>
    /\ removed.watching
    /\ removed.id = last.arg
    /\ ~removed.rebuilt
    /\ removed.age = 0
    /\ tombstoned(last.arg % IndexRange)

\* C11: create(requested) with requested = len(state) takes the grow path
\* whatever free holds (refused with EntityInvalidId when len(state) =
\* capacity, else a new slot of version 1 at the end and free untouched); with
\* another index that is in free it takes exactly that index out of free,
\* revives that slot with its stored version and returns its id; with any
\* other index it throws InvalidRequestedIndexException and leaves state,
\* free, the columns and the change log alone.
C11_CreateRequested ==
    [][last'.op = "createRequested" =>
          LET requested == last'.arg IN
          /\ requested = size(m_state) =>
                /\ last'.exc = "none"
                /\ m_free' = m_free
                /\ IF size(m_state) = m_state.capacity
                   THEN /\ last'.ret = EntityInvalidId
                        /\ UNCHANGED <<m_tuple, m_state, m_changes>>
                   ELSE /\ m_state'.data = Append(m_state.data, EntityIndexVersionStart)
                        /\ last'.ret = requested + EntityIndexVersionStart * IndexRange
          /\ (requested # size(m_state) /\ requested \in freeIndices) =>
                /\ last'.exc = "none"
                /\ {m_free'.data[k] : k \in 1..Len(m_free'.data)} = freeIndices \ {requested}
                /\ size(m_free') = size(m_free) - 1
                /\ size(m_state') = size(m_state)
                /\ at(m_state', requested) = at(m_state, requested) % VersionRange
                /\ \A i \in Slots \ {requested} : at(m_state', i) = at(m_state, i)
                /\ last'.ret = requested + (at(m_state, requested) % VersionRange) * IndexRange
          /\ (requested # size(m_state) /\ requested \notin freeIndices) =>
                /\ last'.exc = "InvalidRequestedIndexException"
                /\ UNCHANGED <<m_tuple, m_state, m_free, m_changes>>]_vars

\* C11 witness: create(requested) has revived a free slot that was not the
\* one at the back of free
C11_Witness ==
    /\ last.op = "createRequested"
    /\ last.ret # EntityInvalidId
    /\ last.ret \div IndexRange >= 2
    /\ size(m_free) >= 1
    /\ ~tombstoned(last.arg)
    /\ last.arg < size(m_state) - 1

\* C12: in every reachable state every component column has exactly
\* len(state) cells.
C12_ColumnLengths == \A c \in ComponentNames : size(m_tuple[c]) = size(m_state)

\* C12 witness: a load has just rebuilt a slot table that is not empty
C12_Witness ==
    /\ last.op = "load"
    /\ size(m_state) >= 1
    /\ \A c \in ComponentNames : size(m_tuple[c]) >= 1

Entries == 1..Len(m_archetypes)

\* C14: in every reachable registry state no two entries share a mask or an
\* id; findArchetypeById(id) and findArchetype(mask) return the archetype that
\* was registered with that id and that mask, and nullptr for an id or a mask
\* that is not registered; after Ecs::reset all of them return nullptr and a
\* registerArchetype of any type with any id succeeds again.
C14_RegistryLookup ==
    [][/\ \A j, k \in 1..Len(m_archetypes') :
             j # k => /\ m_archetypes'[j].mask # m_archetypes'[k].mask
                      /\ m_archetypes'[j].id # m_archetypes'[k].id
       /\ \A k \in 1..Len(m_archetypes') :
             /\ m_archetypesById'[m_archetypes'[k].id] = m_archetypes'[k].archetype
             /\ find(m_archetypes', m_archetypes'[k].mask) = m_archetypes'[k].archetype
       /\ \A id \in ArchetypeIds :
             (\A k \in 1..Len(m_archetypes') : m_archetypes'[k].id # id)
                 => m_archetypesById'[id] = NullArchetype
       /\ \A mask \in SUBSET {"Position", "Timer", "Draw"} :
             (\A k \in 1..Len(m_archetypes') : m_archetypes'[k].mask # mask)
                 => find(m_archetypes', mask) = NullArchetype
       /\ last'.op = "ecsReset" =>
             /\ m_archetypes' = <<>>
             /\ \A id \in ArchetypeIds : m_archetypesById'[id] = NullArchetype
       /\ (last.op = "ecsReset" /\ last'.op = "registerArchetype") =>
             /\ last'.exc = "none"
             /\ last'.ret = last'.type]_vars

\* C14 witness: two archetypes are registered, the one with the largest mask
\* first and under the larger id
C14_Witness ==
    /\ last.op = "registerArchetype"
    /\ last.exc = "none"
    /\ Len(m_archetypes) = 2
    /\ m_archetypes[1].archetype = "test"
    /\ m_archetypes[1].id = MaxArchetypeId
    /\ m_archetypesById[1] = m_archetypes[2].archetype

\* C15: registerArchetype of a type whose mask is registered already throws
\* DuplicateArchetypeException, whether or not the id is in use too; with a
\* fresh mask and an id in use it throws DoubleId; in both cases the entries
\* and the id table are unchanged and the listener is not told; otherwise the
\* archetype is appended, entered under its id and the listener, if any, is
\* told once.
C15_RegistrationErrors ==
    [][last'.op = "registerArchetype" =>
          LET maskTaken == \E k \in Entries : m_archetypes[k].mask = staticMask(last'.type)
              idTaken == \E k \in Entries : m_archetypes[k].id = last'.arg
          IN /\ maskTaken =>
                   /\ last'.exc = "DuplicateArchetypeException"
                   /\ UNCHANGED <<m_archetypes, m_archetypesById>>
                   /\ last'.hooks = <<>>
             /\ (~maskTaken /\ idTaken) =>
                   /\ last'.exc = "DoubleId"
                   /\ UNCHANGED <<m_archetypes, m_archetypesById>>
                   /\ last'.hooks = <<>>
             /\ (~maskTaken /\ ~idTaken) =>
                   /\ last'.exc = "none"
                   /\ Len(m_archetypes') = Len(m_archetypes) + 1
                   /\ SubSeq(m_archetypes', 1, Len(m_archetypes)) = m_archetypes
                   /\ m_archetypes'[Len(m_archetypes')].archetype = last'.type
                   /\ m_archetypesById'[last'.arg] = last'.type
                   /\ Len(last'.hooks) = (IF m_listener THEN 1 ELSE 0)]_vars

\* C15 witness: with a listener installed, a type that is registered was
\* registered once more under the id of another archetype
C15_Witness ==
    /\ last.op = "registerArchetype"
    /\ last.exc = "DuplicateArchetypeException"
    /\ m_listener
    /\ \E k \in Entries : m_archetypes[k].id = last.arg /\ m_archetypes[k].archetype # last.type

\* the pass has run past the last entry and is about to return
passDone == pass.active /\ ~pass.inside /\ pass.entry > Len(m_archetypes)

\* the live slots of the archetypes whose mask holds the query mask, in
\* registration order and ascending index
RECURSIVE liveCells(_, _, _, _)
liveCells(archetypes, componentMask, k, i) ==
    IF k > Len(archetypes) THEN <<>>
    ELSE IF ~(componentMask \subseteq archetypes[k].mask) \/ i >= Len(archetypes[k].a.m_state.data)
    THEN liveCells(archetypes, componentMask, k + 1, 0)
    ELSE (IF archetypes[k].a.m_state.data[i + 1] \div VersionRange = 0
          THEN <<[archetype |-> archetypes[k].archetype, index |-> i]>>
          ELSE <<>>)
         \o liveCells(archetypes, componentMask, k, i + 1)

cellsOf(yielded) ==
    [j \in 1..Len(yielded) |-> [archetype |-> yielded[j].archetype, index |-> yielded[j].index]]

entryOf(type) == CHOOSE k \in Entries : m_archetypes[k].archetype = type

\* C16: a forEach / forEachWithEntity call whose callback removed nothing has,
\* when it returns, called the callback exactly for the live slots of the
\* archetypes whose mask holds every bit of the query mask, once each, the
\* archetypes in registration order and the slots in ascending index; and
\* forEachWithEntity handed every one the handle (archetype, id(index,
\* version)), which validates in that archetype.
C16_ForEachVisits ==
    [][(passDone /\ ~pass'.active /\ pass.removals = 0) =>
          /\ cellsOf(pass.yielded) = liveCells(m_archetypes, pass.componentMask, 1, 0)
          /\ pass.withEntity =>
                \A j \in 1..Len(pass.yielded) :
                    LET y == pass.yielded[j]
                        a == m_archetypes[entryOf(y.archetype)].a
                    IN /\ y.entity.m_archetype = y.archetype
                       /\ y.entity.m_id = y.index + (at(a.m_state, y.index) % VersionRange) * IndexRange
                       /\ validateIdIn(a, y.entity.m_id)]_vars

\* C16 witness: a forEachWithEntity call is about to return that went through
\* two archetypes, passed over a tombstoned slot and called the callback in both
C16_Witness ==
    /\ passDone
    /\ pass.withEntity
    /\ pass.removals = 0
    /\ Len(m_archetypes) = 2
    /\ \E j, k \in 1..Len(pass.yielded) : pass.yielded[j].archetype # pass.yielded[k].archetype
    /\ \E k \in Entries :
          /\ pass.componentMask \subseteq m_archetypes[k].mask
          /\ \E i \in 0..(size(m_archetypes[k].a.m_state) - 1) :
                emptyFromState(at(m_archetypes[k].a.m_state, i))

\* C17: a removal made by the callback of a forEach / forEachWithEntity call
\* leaves len(state), the column lengths and the capacities of every archetype
\* alone; the inner loop runs on to the end of the state vector; no cell is
\* handed out twice; a cell is handed out exactly when its slot is not
\* tombstoned when the loop reaches it; and when the call returns the sum of
\* size() over the archetypes is the number of entities there were less the
\* number removed.
C17_RemovalInPass ==
    [][/\ (pass.active /\ pass'.active /\ pass'.removals # pass.removals) =>
             /\ Len(m_archetypes') = Len(m_archetypes)
             /\ \A k \in Entries :
                   /\ size(m_archetypes'[k].a.m_state) = size(m_archetypes[k].a.m_state)
                   /\ m_archetypes'[k].a.m_state.capacity = m_archetypes[k].a.m_state.capacity
                   /\ \A c \in ComponentNames :
                         /\ size(m_archetypes'[k].a.m_tuple[c]) = size(m_archetypes[k].a.m_tuple[c])
                         /\ m_archetypes'[k].a.m_tuple[c].capacity = m_archetypes[k].a.m_tuple[c].capacity
             /\ countEntities(m_archetypes') = countEntities(m_archetypes) - 1
       /\ (pass.active /\ pass.inside) =>
             /\ pass.end = size(m_archetypes[pass.entry].a.m_state)
             /\ pass.index <= pass.end
       /\ (pass.active /\ pass.inside /\ pass'.active /\ ~pass'.inside) => pass.index = pass.end
       /\ (pass.active /\ pass'.active /\ pass'.index = pass.index + 1 /\ pass'.inside /\ pass.inside) =>
             LET state == at(m_archetypes[pass.entry].a.m_state, pass.index) IN
             IF state \div VersionRange = 0
             THEN /\ Len(pass'.yielded) = Len(pass.yielded) + 1
                  /\ cellsOf(pass'.yielded)[Len(pass'.yielded)] =
                        [archetype |-> m_archetypes[pass.entry].archetype, index |-> pass.index]
             ELSE pass'.yielded = pass.yielded
       /\ pass.active =>
             \A j, k \in 1..Len(pass.yielded) :
                j # k => cellsOf(pass.yielded)[j] # cellsOf(pass.yielded)[k]
       /\ (passDone /\ ~pass'.active) =>
             countEntities(m_archetypes) = pass.startCount - pass.removals]_vars

\* C17 witness: a call over all archetypes is about to return in which the
\* callback of the first cell removed the entity of the cell after it, which
\* was then passed over, and the callback of a later cell removed its own
C17_Witness ==
    /\ passDone
    /\ pass.componentMask = {"Position"}
    /\ pass.removals = 2
    /\ pass.startCount = 3
    /\ Len(pass.yielded) = 2
    /\ \E j \in 1..Len(pass.yielded) :
          LET y == pass.yielded[j] IN
          ~emptyFromState(at(m_archetypes[entryOf(y.archetype)].a.m_state, y.index))

\* the field values of slot i that a caller can read: the Position cell and
\* Timer's timeLeft
payloadOf(tuple, i) ==
    [position |-> at(tuple["Position"], i), timeLeft |-> at(tuple["Timer"], i).timeLeft]

\* the receiving archetype has the state vector, the free list and the
\* payload of every live slot of the archetype that was saved
roundTripSame ==
    /\ m_state'.data = m_state.data
    /\ m_free'.data = m_free.data
    /\ \A i \in Slots : ~tombstoned(i) => payloadOf(m_tuple', i) = payloadOf(m_tuple, i)

\* the next create returns the same id in the saving and the receiving archetype
nextCreateSame == create(Self', EntityInvalidIndex).ret = create(Self, EntityInvalidIndex).ret

\* an automatic compression is compiled into the archetype
autoCompress == AutoCompressNCallsEnabled \/ AutoCompressFreeThresholdEnabled

ownHandle(a, i) == [m_archetype |-> "this", m_id |-> i + (at(a.m_state, i) % VersionRange) * IndexRange]

\* C19: in an archetype that allows entities, after createEntity and
\* duplicateEntity the Timer cell of the new slot, and after load the Timer
\* cell of every live slot, holds the handle (this archetype, id(i, version
\* of slot i)), which is the handle returned and validates; and no live slot
\* ever holds a handle other than its own or the empty one.
C19_SelfHandles ==
    [][AllowEntities =>
          /\ (last'.op \in {"createEntity", "duplicateEntity"} /\ last'.ent # EmptyEntity) =>
                LET i == last'.ent.m_id % IndexRange IN
                /\ last'.ent = ownHandle(Self', i)
                /\ at(m_tuple'["Timer"], i).self = last'.ent
                /\ validateIdIn(Self', last'.ent.m_id)
          /\ last'.op \in {"roundTrip", "load"} =>
                \A i \in 0..(size(m_state') - 1) :
                    at(m_state', i) \div VersionRange = 0 =>
                        /\ at(m_tuple'["Timer"], i).self = ownHandle(Self', i)
                        /\ validateIdIn(Self', ownHandle(Self', i).m_id)
          /\ \A i \in 0..(size(m_state') - 1) :
                at(m_state', i) \div VersionRange = 0 =>
                    at(m_tuple'["Timer"], i).self \in {EmptyEntity, ownHandle(Self', i)}]_vars

\* C19 witness: a load into a fresh registry has seated a slot that was
\* created by create(), next to a tombstoned one
C19_Witness ==
    /\ AllowEntities
    /\ last.op = "roundTrip"
    /\ last.arg = 1
    /\ size(m_state) = 2
    /\ tombstoned(0)
    /\ ~tombstoned(1)
    /\ at(m_tuple["Timer"], 1).self = ownHandle(Self, 1)
    /\ at(m_state, 1) % VersionRange = 2

\* what the step of duplicateEntity(src) does: with a valid src of this
\* archetype and a slot available, the slot create() would take, another one
\* than src's, with every cell equal to the source cell but for the handle,
\* which is the new entity's; else nothing
duplicateOutcome ==
    LET src == last'.arg
        valid == src.m_archetype = "this" /\ ~failsExtractIndex(src.m_id)
    IN IF valid /\ ~full
       THEN LET target == last'.ent.m_id % IndexRange
                source == src.m_id % IndexRange
            IN /\ last'.ent # EmptyEntity
               /\ last'.ent.m_id = create(Self, EntityInvalidIndex).ret
               /\ m_state' = create(Self, EntityInvalidIndex).a.m_state
               /\ m_free' = create(Self, EntityInvalidIndex).a.m_free
               /\ target # source
               /\ at(m_tuple'["Position"], target) = at(m_tuple["Position"], source)
               /\ at(m_tuple'["Timer"], target) =
                     [at(m_tuple["Timer"], source) EXCEPT !.self = last'.ent]
               /\ validateIdIn(Self', last'.ent.m_id)
               /\ validateIdIn(Self', src.m_id)
               /\ \A c \in ComponentNames : \A i \in Slots \ {target} :
                     at(m_tuple'[c], i) = at(m_tuple[c], i)
       ELSE /\ last'.ent = EmptyEntity
            /\ UNCHANGED <<m_tuple, m_state, m_free, m_changes>>

\* C20 as written: duplicateEntity(src) duplicates whenever src is valid and
\* a slot is available, on every archetype.
C20_Original == [][last'.op = "duplicateEntity" => duplicateOutcome]_vars

\* C20 amended: on an archetype that allows entities, duplicateEntity(src)
\* with src non-empty, of this archetype and valid, and a slot available,
\* allocates a slot other than src's exactly as create does, makes every cell
\* of it equal to the source cell, re-seats the handle to the new entity and
\* returns a handle that validates, src staying valid and unchanged; with src
\* empty, foreign or stale, or the archetype full, it returns the empty
\* entity and leaves state, free, the columns and the change log alone.
C20_Duplicate == [][(last'.op = "duplicateEntity" /\ AllowEntities) => duplicateOutcome]_vars

\* C20 witness: an entity whose fields the caller wrote was duplicated into a
\* slot taken from free
C20_Witness ==
    /\ AllowEntities
    /\ last.op = "duplicateEntity"
    /\ last.ent # EmptyEntity
    /\ last.ent.m_id \div IndexRange >= 2
    /\ payloadOf(m_tuple, last.ent.m_id % IndexRange) = [position |-> MaxPayload, timeLeft |-> MaxPayload]
    /\ payloadOf(m_tuple, last.arg.m_id % IndexRange) = [position |-> MaxPayload, timeLeft |-> MaxPayload]

\* C13: compress() on an archetype flagged CompressableNoEntities keeps the
\* live count, leaves free empty and no slot tombstoned, and makes len(state)
\* and every column length equal to the live count; with free empty before
\* it changes nothing, and with no live slot it empties state, free and
\* every column.
C13_Compress ==
    [][(last'.op = "compress" /\ AllowCompression) =>
          /\ archSize(Self') = archSize(Self)
          /\ empty(m_free')
          /\ \A i \in 0..(size(m_state') - 1) : at(m_state', i) \div VersionRange = 0
          /\ size(m_state') = archSize(Self)
          /\ \A c \in ComponentNames : size(m_tuple'[c]) = archSize(Self)
          /\ empty(m_free) => UNCHANGED <<m_tuple, m_state, m_free>>
          /\ archSize(Self) = 0 =>
                /\ m_state'.data = <<>>
                /\ m_free'.data = <<>>
                /\ \A c \in ComponentNames : m_tuple'[c].data = <<>>]_vars

\* C13 witness: a compress has moved the last live slot into the hole at
\* index 0 (the state of a moved slot is 0) and kept the live slot at index 1
C13_Witness ==
    /\ AllowCompression
    /\ last.op = "compress"
    /\ size(m_state) = 2
    /\ at(m_state, 0) = 0
    /\ at(m_state, 1) >= EntityIndexVersionStart
    /\ empty(m_free)

\* the operations that allocate a slot
CreateOps == {"create", "createRequested", "createEntity", "duplicateEntity"}

\* C21: on an archetype flagged WithCreateDeleteTracking every create that
\* returns an id (create, create(requested), createEntity, duplicateEntity)
\* appends {id, Create} and every remove that takes effect appends
\* {id, Delete} to the end of the log while tracking is enabled; while it is
\* disabled nothing is recorded, and recording resumes when it is enabled
\* again; resetTrackedEntities (which reset() calls too) empties the log and
\* no other step changes it.
C21_ChangeTracking ==
    [][WithCreateDeleteTracking =>
          /\ (last'.op \in CreateOps /\ last'.ret # EntityInvalidId /\ last'.exc = "none") =>
                m_changes' = IF m_enabled
                             THEN Append(m_changes, [id |-> last'.ret, type |-> "Create"])
                             ELSE m_changes
          /\ (last'.op \in CreateOps /\ (last'.ret = EntityInvalidId \/ last'.exc # "none")) =>
                m_changes' = m_changes
          /\ last'.op = "remove" =>
                m_changes' = IF m_enabled /\ ~failsExtractIndex(last'.arg)
                             THEN Append(m_changes, [id |-> last'.arg, type |-> "Delete"])
                             ELSE m_changes
          /\ last'.op \in {"resetTrackedEntities", "reset"} => m_changes' = <<>>
          /\ last'.op = "enableEntityTracking" =>
                /\ m_changes' = m_changes
                /\ m_enabled' = (last'.arg = 1)
          /\ last'.op \notin {"enableEntityTracking"} => m_enabled' = m_enabled]_vars

\* C21 witness: a create, a remove made while tracking was paused and a later
\* create: the log holds the two creates of slot 0 and no Delete between them
C21_Witness ==
    /\ WithCreateDeleteTracking
    /\ m_enabled
    /\ m_changes = <<[id |-> idFromIndexAndVersion(0, 1), type |-> "Create"],
                     [id |-> idFromIndexAndVersion(0, 2), type |-> "Create"]>>

(***************************************************************************)
(* Ecs::save followed by Ecs::load (SpecLoad): in a SaveLoad step the      *)
(* unprimed registry is the one that saved, the primed one the one that    *)
(* loaded.                                                                 *)
(***************************************************************************)
SavedKind == [format |-> "v2", v |-> streamVersion]

\* the archetypeSize fields of a stream, found the way Ecs::load walks it
RECURSIVE archetypeSizes(_, _, _)
archetypeSizes(tokens, k, left) ==
    IF left = 0 \/ ~expects(tokens, k, <<"u8", "u32">>) THEN <<>>
    ELSE <<tokens[k + 1].v>> \o archetypeSizes(tokens, skip(tokens, k + 2, tokens[k + 1].v), left - 1)

\* the number of bytes of the body of every archetype of the saving registry
bodyLens(format) ==
    [k \in 1..Len(m_archetypes) |->
        byteLen(archetypeSave(m_archetypes[k].a, componentsOf(m_archetypes[k].archetype), format))]

\* a loading registry with, in addition, the registrations it lacks of the
\* archetypes of the saving one
RECURSIVE completed(_, _, _)
completed(loader, archetypes, k) ==
    IF k > Len(archetypes) THEN loader
    ELSE completed(registered(loader, <<Registration(archetypes[k].archetype, archetypes[k].id,
                                                     SmallArrayN)>>),
                   archetypes, k + 1)

\* C22: in a stream written by Ecs::save the archetypeSize of every record is
\* the number of bytes of its body; a load of it by a registry that lacks ids
\* of the stream raises nothing, and leaves every archetype the registry has
\* exactly as a registry does that has the lacking registrations as well.
C22_SkipUnknownArchetype ==
    [][(last'.op = "ecsLoad" /\ last'.arg.kind = SavedKind) =>
          \A tokens \in {ecsSave(Registry, "v2", streamVersion)} :
          \A loader \in {loaderOf(last'.arg.loader)} :
          \A r \in {ecsLoadStream(loader, tokens)} :
          \A rf \in {ecsLoadStream(completed(loader, m_archetypes, 1), tokens)} :
             /\ archetypeSizes(tokens, 3, Len(m_archetypes)) = bodyLens("v2")
             /\ r.exc = "none"
             /\ rf.exc = "none"
             /\ last'.exc \in {"none", "fault"}
             /\ last'.exc = "none" => Registry' = r.e
             /\ \A n \in 1..Len(loader.m_archetypes) :
                   r.e.m_archetypes[n] = rf.e.m_archetypes[n]]_vars

\* C22 witness: a registry that has the id 1 only has loaded a stream whose
\* first record, of a non-empty archetype, has the id 2 and whose second has
\* the id 1, and holds the entity of the second
C22_Witness ==
    /\ last.op = "ecsLoad"
    /\ last.exc = "none"
    /\ last.arg.kind = SavedKind
    /\ ~last.arg.loader.same
    /\ Len(last.arg.loader.regs) = 1
    /\ Len(last.arg.records) = 2
    /\ last.arg.records[1].id = 2
    /\ last.arg.records[2].id = 1
    /\ Len(m_archetypes) = 1
    /\ size(m_archetypes[1].a.m_state) = 1
    /\ at(m_archetypes[1].a.m_tuple["Position"], 0) = MaxPayload

\* the streams as Ecs::save writes them, of the current and of version 1
WrittenKinds == {SavedKind, [format |-> "v1", v |-> 1]}

\* the pairs <<n, k>>: entry n of the loading registry has the id of record k
\* of the stream
receives(loader, archetypes) ==
    {p \in (1..Len(loader.m_archetypes)) \X (1..Len(archetypes)) :
        loader.m_archetypes[p[1]].id = archetypes[p[2]].id}

\* ... and record k has a column record of a component that entry n lacks
unknownColumn(loader, archetypes) ==
    {p \in receives(loader, archetypes) :
        /\ size(archetypes[p[2]].a.m_state) > 0
        /\ ~(staticMask(archetypes[p[2]].archetype)
                \subseteq staticMask(loader.m_archetypes[p[1]].archetype))}

\* the outcome of the step is the outcome of the load, or the end of a
\* process whose load wrote past an array
outcomeOf(r) ==
    \/ last'.exc = r.exc /\ Registry' = r.e
    \/ last'.exc = "fault" /\ overrun(r.e)

\* C23: a column record whose name is of no component of the receiving
\* archetype: a load of a stream of version >= 2 moves on by the size field
\* less 4, which is the start of the next column header, raises nothing and
\* loads what the archetype has components for of this and of the later
\* records; a load of a stream of version < 2 raises CannotSkipComponent.
C23_SkipUnknownColumn ==
    [][(last'.op = "ecsLoad" /\ last'.arg.kind \in WrittenKinds) =>
          \A kind \in {last'.arg.kind} : \A loader \in {loaderOf(last'.arg.loader)} :
          \A r \in {ecsLoadStream(loader, ecsSave(Registry, kind.format, kind.v))} :
          \A unknown \in {unknownColumn(loader, m_archetypes)} :
             unknown # {} =>
                /\ outcomeOf(r)
                /\ IF kind.v < 2 THEN r.exc = "CannotSkipComponentException"
                   ELSE /\ r.exc = "none"
                        /\ \A p \in unknown :
                              LET from == m_archetypes[p[2]]
                                  to == r.e.m_archetypes[p[1]]
                              IN \A c \in staticMask(from.archetype) \ staticMask(to.archetype) :
                                    LET record == columnRecord(c, from.a.m_tuple[c],
                                                               from.a.m_state.data, "v2")
                                    IN skip(record, 5, record[4].v - 4) = Len(record) + 1
                        /\ \A p \in receives(loader, m_archetypes) :
                              LET from == m_archetypes[p[2]]
                                  to == r.e.m_archetypes[p[1]]
                              IN /\ to.a.m_state.data = from.a.m_state.data
                                 /\ to.a.m_free.data = from.a.m_free.data
                                 /\ \A c \in staticMask(from.archetype) \cap staticMask(to.archetype) :
                                       savedPayload(c, to.a.m_tuple[c], to.a.m_state.data)
                                          = savedPayload(c, from.a.m_tuple[c], from.a.m_state.data)]_vars

\* C23 witness: a registry with the instance vs under the id 1 and fas under
\* the id 2 has loaded a stream of version 2 whose first record, of the id 1,
\* was written by fas and whose second, of the id 2, by vs: it holds the
\* entity of each
C23_Witness ==
    /\ last.op = "ecsLoad"
    /\ last.exc = "none"
    /\ last.arg.kind = SavedKind
    /\ ~last.arg.loader.same
    /\ last.arg.records = <<[id |-> 1, archetype |-> "fas"], [id |-> 2, archetype |-> "vs"]>>
    /\ Len(m_archetypes) = 2
    /\ m_archetypes[1].archetype = "vs"
    /\ size(m_archetypes[1].a.m_state) = 1
    /\ at(m_archetypes[1].a.m_tuple["Position"], 0) = MaxPayload
    /\ size(m_archetypes[2].a.m_state) = 1
    /\ at(m_archetypes[2].a.m_tuple["Position"], 0) = MaxPayload

\* no archetype of the registry holds a slot
everyArchetypeEmpty ==
    \A n \in 1..Len(m_archetypes) :
        /\ empty(m_archetypes[n].a.m_state)
        /\ empty(m_archetypes[n].a.m_free)

\* C24 as stated: the archetypes are reset before the version is read, so
\* after a load that failed with BadStreamVersion every registered archetype
\* is empty.
C24_Original == (last.op = "ecsLoad" /\ last.exc = "BadStreamVersion") => everyArchetypeEmpty

\* C24: Ecs::load reads streamVersion first and raises BadStreamVersion when
\* it is greater than 2, before any archetype is touched: after such a load
\* the registry is as it was.  The archetypes are reset after the version
\* was accepted and before the records are read: a load of a stream without
\* records leaves every registered archetype as reset() leaves it.
C24_LoaderOrdering ==
    [][last'.op = "ecsLoad" =>
          /\ last'.arg.kind.v > streamVersion =>
                /\ last'.exc = "BadStreamVersion"
                /\ Registry' = loaderOf(last'.arg.loader)
          /\ (last'.arg.kind.v <= streamVersion /\ last'.arg.records = <<>>) =>
                /\ last'.exc = "none"
                /\ Registry' = onEveryArchetype(loaderOf(last'.arg.loader), reset)
                /\ everyArchetypeEmpty']_vars

\* C24 witness: a load of a stream of version 3 has failed in a registry
\* that holds an entity, and the entity is still there
C24_Witness ==
    /\ last.op = "ecsLoad"
    /\ last.exc = "BadStreamVersion"
    /\ last.arg.kind.v = streamVersion + 1
    /\ \E n \in 1..Len(m_archetypes) :
          /\ size(m_archetypes[n].a.m_state) = 1
          /\ ~emptyFromState(at(m_archetypes[n].a.m_state, 0))
          /\ at(m_archetypes[n].a.m_tuple["Position"], 0) = MaxPayload

\* C25: a load of an archetype body in which the record of a column occurs
\* twice raises InvalidDataStream and does not load the column a second
\* time.
C25_DuplicateColumn ==
    [][(/\ last'.op = "ecsLoad"
        /\ last'.arg.kind.format = "dup"
        /\ \E n \in 1..Len(m_archetypes) : ~empty(m_archetypes[n].a.m_state)) =>
          last'.exc = "InvalidDataStreamException"]_vars

\* C30: in every state of every registered archetype
\* 0 <= len(free) <= len(state) <= capacity, also after the load of a stream
\* into storage::Array (len(state) never exceeds N).
C30_StorageBounds ==
    \A n \in 1..Len(m_archetypes) :
        LET a == m_archetypes[n].a IN
        /\ 0 <= size(a.m_free)
        /\ size(a.m_free) <= size(a.m_state)
        /\ size(a.m_state) <= a.m_state.capacity
        /\ size(a.m_free) <= a.m_free.capacity

\* C26: in every state of every archetype, also after compress, the version
\* of every slot is in 1..127, validateId(EntityInvalidId) is false, and the
\* handle forEachWithEntity builds for a live slot has neither the id 0 nor
\* the version 0.
C26_SentinelNeverValid ==
    /\ \A i \in Slots : versionFromState(at(m_state, i)) \in 1..(VersionRange - 1)
    /\ ~validateId(EntityInvalidId)
    /\ \A i \in Slots :
          yields(at(m_state, i)) =>
             LET handle == Yielded([archetype |-> "this", a |-> Self], i, TRUE).entity IN
             /\ handle.m_id # EntityInvalidId
             /\ versionFromId(handle.m_id) # 0

\* C27: enlarge() on a growable archetype doubles the capacity of the state
\* vector, the free list and every column and changes no content, so that an
\* archetype that was full, also one that was never reserved, accepts a
\* create afterwards; on bounded storage enlarge() changes nothing.
C27_EnlargeMakesRoom ==
    [][last'.op = "enlarge" =>
          IF canReallocate
          THEN /\ m_state'.capacity = 2 * m_state.capacity
               /\ m_free'.capacity = 2 * m_free.capacity
               /\ \A c \in ComponentNames : m_tuple'[c].capacity = 2 * m_tuple[c].capacity
               /\ m_state'.data = m_state.data
               /\ m_free'.data = m_free.data
               /\ \A c \in ComponentNames : m_tuple'[c].data = m_tuple[c].data
               /\ m_changes' = m_changes
               /\ full => create(Self', EntityInvalidIndex).ret # EntityInvalidId
          ELSE Self' = Self]_vars

\* C29: on an archetype flagged CompressableNoEntities createEntity and
\* duplicateEntity return an empty entity and leave the state vector, the
\* free list, every column and the change log as they were.
C29_NoEntities ==
    [][(AllowCompression /\ last'.op \in {"createEntity", "duplicateEntity"}) =>
          /\ last'.ent = EmptyEntity
          /\ last'.exc = "none"
          /\ m_state' = m_state
          /\ m_free' = m_free
          /\ m_tuple' = m_tuple
          /\ m_changes' = m_changes]_vars

\* C29 witness: duplicateEntity was called on a compressible archetype with
\* room, with the handle of one of its live slots, and returned the empty
\* entity
C29_Witness ==
    /\ AllowCompression
    /\ last.op = "duplicateEntity"
    /\ last.arg.m_archetype = "this"
    /\ validateId(last.arg.m_id)
    /\ ~full
    /\ last.ent = EmptyEntity

\* the calls Ecs::forEach / forEachWithEntity makes of a callback that changes
\* nothing, for the component set of the iterator
forEachCalls(withEntity) ==
    LET cells == liveCells(m_archetypes, iterator.componentMask, 1, 0) IN
    [j \in 1..Len(cells) |->
        Yielded(m_archetypes[entryOf(cells[j].archetype)], cells[j].index, withEntity)]

\* the archetypes that match the component set of the iterator
matching == {k \in Entries : matches(m_archetypes[k], iterator.componentMask)}

\* C28: after an initialize(registry) that found at most Max matching
\* archetypes, and as long as no archetype was registered or reset away
\* since, iterate / iterateEntity call the callback for exactly the cells,
\* in the order and with the handles of Ecs::forEach / forEachWithEntity for
\* the same components; an initialize that finds more than Max matching
\* archetypes fails its assertion.
C28_IteratorAsForEach ==
    [][/\ (last'.op \in {"iterate", "iterateEntity"} /\ iterator.initialized /\ ~iterator.changed) =>
             /\ last'.exc = "none"
             /\ last'.hooks = forEachCalls(last'.op = "iterateEntity")
       /\ last'.op = "initialize" =>
             (last'.exc = "assert") = (Cardinality(matching) > iterator.Max)]_vars

\* the live slots of the archetype
liveSlots == {i \in Slots : ~emptyFromState(at(m_state, i))}

\* the slot whose cell a compression of the current state puts at index i of
\* the compressed columns: a live slot below the live count stays, and the
\* k-th lowest hole below the live count takes the k-th highest live slot
sourceOf(i) ==
    LET n == Cardinality(liveSlots)
        holes == {h \in 0..(n - 1) : h \notin liveSlots}
        movers == {m \in liveSlots : m >= n}
    IN IF i \in liveSlots THEN i
       ELSE CHOOSE m \in movers :
               Cardinality({g \in movers : g > m}) = Cardinality({h \in holes : h < i})

\* how many of the slots in S hold the payload p in the columns tuple
copies(tuple, S, p) == Cardinality({i \in S : payloadOf(tuple, i) = p})

\* C31: compress() neither loses nor duplicates a cell: the payloads in the
\* columns afterwards are, counted with multiplicity, the payloads of the
\* slots that were live; a live slot below the new length keeps index and
\* payload; the holes below the new length are filled, lowest first, by the
\* live cells behind it, last first, each of them moved once.
C31_CompressMoves ==
    [][(last'.op = "compress" /\ AllowCompression) =>
          LET n == Cardinality(liveSlots)
              after == 0..(size(m_state') - 1)
          IN
          /\ size(m_state') = n
          /\ \A c \in ComponentNames : size(m_tuple'[c]) = n
          /\ \A i \in after : \A j \in liveSlots :
                copies(m_tuple', after, payloadOf(m_tuple', i)) = copies(m_tuple, liveSlots, payloadOf(m_tuple', i))
                /\ copies(m_tuple', after, payloadOf(m_tuple, j)) = copies(m_tuple, liveSlots, payloadOf(m_tuple, j))
          /\ \A i \in liveSlots : i < n => payloadOf(m_tuple', i) = payloadOf(m_tuple, i)
          /\ \A i \in after : payloadOf(m_tuple', i) = payloadOf(m_tuple, sourceOf(i))
          /\ \A i, j \in after : i # j => sourceOf(i) # sourceOf(j)]_vars

\* C31 witness: a compress of five slots with holes at 0 and 1 has moved slot
\* 4 to index 0 and slot 3 to index 1 and kept slot 2
C31_Witness ==
    /\ AllowCompression
    /\ last.op = "compress"
    /\ size(m_state) = 3
    /\ payloadOf(m_tuple, 0) = [position |-> tagOf(4), timeLeft |-> tagOf(4)]
    /\ payloadOf(m_tuple, 1) = [position |-> tagOf(3), timeLeft |-> tagOf(3)]
    /\ payloadOf(m_tuple, 2) = [position |-> tagOf(2), timeLeft |-> tagOf(2)]

\* C32: with AutoCompressNCalls (and without AutoCompressFreeThreshold) and
\* setAutoCompressNCalls(N), the k-th performMaintenance call since the last
\* automatic compression compresses exactly when k = N, and the counter
\* restarts then. The calls since the last automatic compression are what
\* m_currentCalls counts; a compression shows in the free list, which it
\* empties.
C32_EveryNCalls ==
    [][(/\ last'.op = "performMaintenance"
        /\ AutoCompressNCallsEnabled /\ ~AutoCompressFreeThresholdEnabled
        /\ ~empty(m_free)) =>
          LET k == m_currentCalls + 1 IN
          /\ empty(m_free') <=> k = m_nCalls
          /\ empty(m_free') => m_currentCalls' = 0]_vars

\* the next create() on archetype a finds a slot: a free one, or room behind
\* the last one
hasRoom(a) == ~empty(a.m_free) \/ size(a.m_state) < a.m_state.capacity

\* C33: for a growable archetype with AutoReserveNLeft (and without
\* AutoReserveFullThreshold) and setAutoReserveNLeft(M), performMaintenance
\* enlarges the archetype exactly when capacity - live count is fewer than M
\* and otherwise leaves the capacity as it is; and what Ecs::load does to the
\* archetype (here one that is not serialized: reset, then the final
\* performMaintenance) leaves room for the next create.
C33_ReserveNLeft ==
    [][(AutoReserveNLeftEnabled /\ ~AutoReserveFullThresholdEnabled) =>
          /\ last'.op = "performMaintenance" =>
                IF archCapacity(Self) - archSize(Self) < m_nLeft
                THEN archCapacity(Self') > archCapacity(Self)
                ELSE archCapacity(Self') = archCapacity(Self)
          /\ hasRoom(ecsLoad(Self, NoStream))]_vars

LongKind == [format |-> "long", v |-> streamVersion]

ShortKind == [format |-> "short", v |-> streamVersion]

\* the registry after has, archetype by archetype, the state bytes, the free
\* list and, in the columns the archetype has, the payload of every live
\* slot of the registry before
sameEntities(before, after) ==
    /\ Len(after) = Len(before)
    /\ \A n \in 1..Len(before) :
          /\ after[n].a.m_state.data = before[n].a.m_state.data
          /\ after[n].a.m_free.data = before[n].a.m_free.data
          /\ \A i \in 0..(size(before[n].a.m_state) - 1) :
                ~emptyFromState(at(before[n].a.m_state, i)) =>
                   /\ at(after[n].a.m_tuple["Position"], i) = at(before[n].a.m_tuple["Position"], i)
                   /\ "Timer" \in before[n].mask =>
                         at(after[n].a.m_tuple["Timer"], i).timeLeft
                            = at(before[n].a.m_tuple["Timer"], i).timeLeft

\* C34: in a load of a stream of version 2 by the registry that saved it, a
\* column whose loader reads fewer bytes than the column holds has the rest
\* skipped, so that the load goes on as that of the stream without the extra
\* bytes and gives back every entity; a column whose loader reads more bytes
\* than the size field counts ends the load with InvalidDataStreamException;
\* and with columns read to their end the load completes and gives back
\* every entity.
C34_ColumnCursor ==
    [][(last'.op = "ecsLoad" /\ last'.arg.loader.same /\ last'.exc # "fault") =>
          /\ last'.arg.kind = LongKind =>
                \A r \in {ecsLoadStream(Registry, streamOf(SavedKind))} :
                   /\ last'.exc = "none" /\ r.exc = "none"
                   /\ m_archetypes' = r.e.m_archetypes
                   /\ sameEntities(m_archetypes, m_archetypes')
          /\ last'.arg.kind = ShortKind =>
                last'.exc = IF slotCount(m_archetypes) > 0
                            THEN "InvalidDataStreamException" ELSE "none"
          /\ last'.arg.kind = SavedKind =>
                last'.exc = "none" /\ sameEntities(m_archetypes, m_archetypes')]_vars

\* C34 witness: a stream with four extra bytes in every column of two
\* archetypes was loaded to its end, the second archetype with its value
C34_Witness ==
    /\ last.op = "ecsLoad" /\ last.arg.kind = LongKind /\ last.exc = "none"
    /\ Len(m_archetypes) = 2
    /\ \A n \in 1..2 :
          /\ size(m_archetypes[n].a.m_state) = 1
          /\ at(m_archetypes[n].a.m_tuple["Position"], 0) = MaxPayload
    /\ \E n \in 1..2 :
          /\ "Timer" \in m_archetypes[n].mask
          /\ at(m_archetypes[n].a.m_tuple["Timer"], 0).timeLeft = MaxPayload

\* the column records of record k of the stream of the registry saver, in
\* stream order: none for an archetype without slots, each twice in the
\* format "dup"
RECURSIVE streamedColumns(_, _, _)
streamedColumns(comps, j, format) ==
    IF j > Len(comps) THEN <<>>
    ELSE <<comps[j]>> \o (IF format = "dup" THEN <<comps[j]>> ELSE <<>>)
         \o streamedColumns(comps, j + 1, format)

\* the events the claim lets a listener see between LoadStart and
\* LoadFinished when the registry loader loads the records from k on
RECURSIVE archetypeEventsFrom(_, _, _, _)
archetypeEventsFrom(loader, saver, format, k) ==
    IF k > Len(saver.m_archetypes) THEN <<>>
    ELSE LET record == saver.m_archetypes[k]
             known == findArchetypeById(loader, record.id)
             columns == IF size(record.a.m_state) = 0 THEN <<>>
                        ELSE streamedColumns(componentsOf(record.archetype), 1, format)
             loadedColumns == SelectSeq(columns, LAMBDA c : c \in staticMask(known))
         IN (IF known = NullArchetype THEN <<>>
             ELSE <<Event("ArchetypeStart", record.id, "")>>
                  \o [j \in 1..Len(loadedColumns) |-> Event("LoadComponent", record.id, loadedColumns[j])]
                  \o <<Event("ArchetypeFinished", record.id, "")>>)
            \o archetypeEventsFrom(loader, saver, format, k + 1)

\* the place in m_archetypes of the archetype that sent an event
registrationOf(event) == CHOOSE n \in 1..Len(m_archetypes) : m_archetypes[n].id = event.archetypeId

\* C35: a listener sees, of an Ecs::load that completes, LoadStart, then for
\* every archetype record with a known id, in stream order, ArchetypeStart,
\* one LoadComponent per loaded column and ArchetypeFinished, then
\* LoadFinished; of a load that raises an error no LoadFinished; and of an
\* Ecs::save SaveStart first, SaveFinished last and in between one
\* SaveComponent per written column, the archetypes in registration order.
C35_EventOrder ==
    [][m_listener =>
          /\ (last'.op = "ecsLoad" /\ last'.exc = "none") =>
                last'.hooks = <<Event("LoadStart", 0, "")>>
                              \o archetypeEventsFrom(loaderOf(last'.arg.loader), saverOf(last'.arg.kind),
                                                     last'.arg.kind.format, 1)
                              \o <<Event("LoadFinished", 0, "")>>
          /\ (last'.op = "ecsLoad" /\ last'.exc # "none") =>
                \A j \in 1..Len(last'.hooks) : last'.hooks[j].type # "LoadFinished"
          /\ last'.op = "ecsSave" =>
                LET n == Len(last'.hooks) IN
                /\ n >= 2
                /\ last'.hooks[1].type = "SaveStart" /\ last'.hooks[n].type = "SaveFinished"
                /\ \A j \in 2..(n - 1) : last'.hooks[j].type = "SaveComponent"
                /\ \A i, j \in 2..(n - 1) :
                      i < j => registrationOf(last'.hooks[i]) <= registrationOf(last'.hooks[j])
                /\ \A k \in 1..Len(m_archetypes) : \A c \in staticMask(m_archetypes[k].archetype) :
                      Cardinality({j \in 2..(n - 1) :
                                      last'.hooks[j] = Event("SaveComponent", m_archetypes[k].id, c)})
                         = IF size(m_archetypes[k].a.m_state) = 0 THEN 0 ELSE 1]_vars

\* C35 witness: the listener has seen the load of a stream of two archetype
\* records by a registry that knows the first one only
C35_Witness ==
    /\ m_listener
    /\ last.op = "ecsLoad" /\ last.exc = "none"
    /\ Len(last.arg.records) = 2
    /\ last.hooks = <<Event("LoadStart", 0, ""), Event("ArchetypeStart", 1, ""),
                      Event("LoadComponent", 1, "Position"), Event("ArchetypeFinished", 1, ""),
                      Event("LoadFinished", 0, "")>>

\* C36: on an archetype that is not flagged CompressableNoEntities,
\* compress() and performMaintenance() leave the content of the state
\* vector, of the free list and of every column as it was, in every state
\* (so that no slot loses the version that keeps a stale handle invalid).
C36_NoCompression ==
    [][(last'.op \in {"compress", "performMaintenance"} /\ ~AllowCompression) =>
          /\ m_state'.data = m_state.data
          /\ m_free'.data = m_free.data
          /\ \A c \in ComponentNames : m_tuple'[c].data = m_tuple[c].data]_vars

\* a 32-bit id whose bit 31 is set is held as the value congruent to it
\* modulo 2^32 that lies below zero (the same 32 bits read as a signed word),
\* on which % and \div pick the same bits as the masks and shifts of the code
withBit31(id) == id - 2 ^ 30 - 2 ^ 30

\* the 32-bit ids tried against validateId and extractIndex: the candidate
\* ids, and each of them with bit 31 set
ProbedIds == CandidateIds \cup {withBit31(id) : id \in CandidateIds}

sharedTest(id) ==
    /\ id % IndexRange < size(m_state)
    /\ ~emptyFromState(at(m_state, id % IndexRange))
    /\ (id \div IndexRange) % VersionRange = versionFromState(at(m_state, id % IndexRange))

\* C37: for every 32-bit id, validateId(id) is true exactly when
\* extractIndex(id, index) returns true, exactly when the low 24 bits of id
\* are below len(state), that slot is not a tombstone and bits 24..30 of id
\* equal the slot's version; on success index is the low 24 bits of id; and
\* setting bit 31 of an id changes the answer of neither.
C37_ValidateExtractAgree ==
    /\ \A id \in ProbedIds :
          LET ex == extractIndex(Self, id) IN
          /\ validateId(id) = ex.ok
          /\ ex.ok = sharedTest(id)
          /\ ex.ok => ex.index = id % IndexRange
    /\ \A id \in CandidateIds :
          /\ validateId(withBit31(id)) = validateId(id)
          /\ extractIndex(Self, withBit31(id)) = extractIndex(Self, id)

\* a state with a live slot whose id validates with bit 31 set, a tombstone,
\* an outdated id of a live slot and an id beyond the end
C37_Witness ==
    /\ \E id \in ProbedIds : id < 0 /\ validateId(id) /\ extractIndex(Self, id).ok
    /\ \E id \in ProbedIds :
          /\ indexFromId(id) < size(m_state)
          /\ emptyFromState(at(m_state, indexFromId(id)))
          /\ ~validateId(id)
    /\ \E id \in ProbedIds :
          /\ indexFromId(id) < size(m_state)
          /\ ~emptyFromState(at(m_state, indexFromId(id)))
          /\ ~validateId(id)
    /\ \E id \in ProbedIds : indexFromId(id) >= size(m_state) /\ ~extractIndex(Self, id).ok

\* the cells handed to the callback after the creation c
yieldedAfter(c) == {cellsOf(pass.yielded)[j] : j \in (c.after + 1)..Len(pass.yielded)}

cellOf(c) == [archetype |-> m_archetypes[c.entry].archetype, index |-> c.index]

\* C38: the end of the pass over an archetype is the len(state) seen when
\* that pass began: a slot the callback appends to the archetype in pass lies
\* at or beyond that end and is not handed to the callback in this pass; a
\* slot created by reuse of a free slot of the archetype in pass is handed to
\* the callback later in the pass exactly when its index is greater than the
\* index in hand at the creation (a slot created in another archetype exactly
\* when that archetype matches and its pass had not begun); and no slot is
\* handed to the callback twice in one pass.
C38_CreationInPass ==
    /\ (pass.active /\ pass.inside) =>
          /\ pass.index <= pass.end
          /\ pass.end <= size(m_archetypes[pass.entry].a.m_state)
          /\ \A n \in 1..Len(pass.created) :
                (pass.created[n].entry = pass.entry /\ pass.created[n].atEntry = pass.entry
                    /\ pass.created[n].grown) => pass.created[n].index >= pass.end
    /\ passDone =>
          \A n \in 1..Len(pass.created) :
             LET c == pass.created[n] IN
             cellOf(c) \in yieldedAfter(c) <=>
                 /\ pass.componentMask \subseteq m_archetypes[c.entry].mask
                 /\ \/ c.entry > c.atEntry
                    \/ c.entry = c.atEntry /\ ~c.grown /\ c.index > c.atIndex
    /\ pass.active =>
          \A j, k \in 1..Len(pass.yielded) :
             j # k => cellsOf(pass.yielded)[j] # cellsOf(pass.yielded)[k]

\* a pass has ended in which one callback appended a slot to the archetype
\* in pass, which was not visited, and another reused a free slot of higher
\* index of the archetype in pass, which was visited
C38_Witness ==
    /\ passDone
    /\ \E n \in 1..Len(pass.created) :
          LET c == pass.created[n] IN
          c.entry = c.atEntry /\ c.grown /\ cellOf(c) \notin yieldedAfter(c)
    /\ \E n \in 1..Len(pass.created) :
          LET c == pass.created[n] IN
          c.entry = c.atEntry /\ ~c.grown /\ c.index > c.atIndex /\ cellOf(c) \in yieldedAfter(c)

recordsWith(id) == {k \in 1..Len(stream.saved) : stream.saved[k].id = id}

emptied(a) ==
    /\ size(a.m_state) = 0
    /\ size(a.m_free) = 0
    /\ \A c \in ComponentNames : size(a.m_tuple[c]) = 0

\* the archetype holds the slots of the record: its state bytes, its free
\* indices, one cell per slot in every column and, in the live slots, the
\* values of the columns the record and the archetype share
holds(entry, record) ==
    /\ entry.a.m_state.data = record.state
    /\ entry.a.m_free.data = record.free
    /\ \A c \in ComponentNames : size(entry.a.m_tuple[c]) = Len(record.state)
    /\ \A i \in 1..Len(record.state) :
          ~emptyFromState(record.state[i]) =>
             /\ ("Position" \in staticMask(entry.archetype) \cap staticMask(record.archetype)) =>
                   entry.a.m_tuple["Position"].data[i] = record.cells["Position"][i]
             /\ ("Timer" \in staticMask(entry.archetype) \cap staticMask(record.archetype)) =>
                   entry.a.m_tuple["Timer"].data[i].timeLeft = record.cells["Timer"][i].timeLeft

completedLoad == last'.op = "ecsLoad" /\ last'.exc = "none"

\* C40 as stated: after a load that completes every archetype that is never
\* serialized or has no record in the stream is empty, every other archetype
\* holds exactly the slots of its record, and no change log holds an entry
C40_Original ==
    [][completedLoad =>
          \A n \in 1..Len(m_archetypes') :
             LET entry == m_archetypes'[n] IN
             /\ IF ArchetypeFlagNeverSerialize \in cfg.flags \/ recordsWith(entry.id) = {}
                THEN emptied(entry.a)
                ELSE \A k \in recordsWith(entry.id) : holds(entry, stream.saved[k])
             /\ entry.a.m_changes = <<>>]_vars

\* an automatic compression is compiled into the archetypes
autoCompressing == AutoCompressNCallsEnabled \/ AutoCompressFreeThresholdEnabled

liveIn(state) == {i \in 1..Len(state) : ~emptyFromState(state[i])}

\* the slots of the record after a compression: no tombstone, no free index,
\* as many slots as the record has live ones
holdsCompressed(entry, record) ==
    /\ size(entry.a.m_state) = Cardinality(liveIn(record.state))
    /\ liveIn(entry.a.m_state.data) = 1..size(entry.a.m_state)
    /\ size(entry.a.m_free) = 0
    /\ \A c \in ComponentNames : size(entry.a.m_tuple[c]) = size(entry.a.m_state)

\* C40: Ecs::load replaces: after a load that completes every archetype that
\* is never serialized or has no record in the stream is empty (no slot, no
\* free index, no cell); every other archetype without automatic compression
\* holds exactly the slots of its record, whatever it held before, and one
\* with automatic compression holds them as they are or compressed; and the
\* change log of every archetype is empty.
C40_LoadReplaces ==
    [][completedLoad =>
          \A n \in 1..Len(m_archetypes') :
             LET entry == m_archetypes'[n] IN
             /\ IF ArchetypeFlagNeverSerialize \in cfg.flags \/ recordsWith(entry.id) = {}
                THEN emptied(entry.a)
                ELSE \A k \in recordsWith(entry.id) :
                        \/ holds(entry, stream.saved[k])
                        \/ autoCompressing /\ holdsCompressed(entry, stream.saved[k])
             /\ entry.a.m_changes = <<>>]_vars

\* a load has completed in a registry that had two slots: the archetype
\* registered after the stream was written is empty, and the other one holds
\* the one live slot of its record, of version 1
C40_Witness ==
    /\ last.op = "ecsLoad" /\ last.exc = "none"
    /\ last.arg = 2
    /\ cfg = LoadConfig
    /\ Len(m_archetypes) = 2
    /\ \E n \in 1..Len(m_archetypes) :
          recordsWith(m_archetypes[n].id) = {} /\ emptied(m_archetypes[n].a)
    /\ \E n \in 1..Len(m_archetypes) : \E k \in recordsWith(m_archetypes[n].id) :
          /\ stream.saved[k].state = <<EntityIndexVersionStart>>
          /\ holds(m_archetypes[n], stream.saved[k])
====
